---- MODULE Spec2Model ----
(***************************************************************************)
(* Sawrin: dependency graph engine, cache store and impact propagation.    *)
(*                                                                         *)
(* Several state machines share this module, one specification each:       *)
(*   SpecGaf    getAffectedFiles (src/core/dependency-graph.ts) run one    *)
(*              while-iteration at a time over graphs built edge by edge;  *)
(*   SpecCache  one CacheManager (src/core/cache.ts) over a cache file;    *)
(*   SpecBuild  buildDependencyGraph over a small project tree and its     *)
(*              cache file;                                                *)
(*   SpecRisk   riskCalculator.analyze and calculateRiskWithImpact         *)
(*              (src/analyzers/risk-calculator.ts) over lists of changed   *)
(*              paths;                                                     *)
(*   SpecMonorepo  detectMonorepo, getPackageForFile and                   *)
(*              getAffectedPackages (src/core/monorepo.ts), the last one   *)
(*              run one while-iteration at a time;                         *)
(*   SpecExports  resolvePackageImport with its exports map, over the      *)
(*              files of one workspace package;                            *)
(*   SpecImpact  addImpact in its two variants over impact maps, and       *)
(*              unitTestAnalyzer.analyze over small projects.              *)
(*   SpecRoute  getRouteSimilarity (src/heuristics/route-patterns.ts) over *)
(*              pairs of route paths;                                      *)
(*   SpecFolder getFolderRiskLevel (src/heuristics/folder-conventions.ts)  *)
(*              over paths of up to three directories;                     *)
(*   SpecDetect detectMonorepo (src/core/monorepo.ts) over the marker      *)
(*              files of a repository root;                                *)
(*   SpecRace   save() of one CacheManager (src/core/cache.ts) run one     *)
(*              system call at a time, while a second process loads the    *)
(*              cache file.                                                *)
(* A machine's variables are held at their initial value by the other      *)
(* machines' specifications.                                               *)
(***************************************************************************)
EXTENDS Integers, Sequences, FiniteSets, TLC

VARIABLES
    \* ---- getAffectedFiles ----
    importedBy,     \* graph.importedBy: file -> importers, in insertion order
    gpc,            \* "build" | "loop" | "done"
    changedFiles,   \* the changedFiles argument
    maxDepth,       \* the maxDepth argument
    affected,       \* Map<string, number>: a function on the recorded files
    queue,          \* Array<{file, depth}>
    \* ---- CacheManager ----
    disk,           \* the cache file <root>/.cache/sawrin/deptree.json
    cpc,            \* "new" before the constructor has run, then "live"
    data,           \* this.data
    isDirty,        \* this.isDirty
    lastCall,       \* the last call on the manager and its outcome
    lastSet,        \* history: file -> the entry of its latest set() since the last clear()
    loaded,         \* history: the entries load() took from the file, until a clear()
    calls,          \* history: the calls made on the manager so far
    touched,        \* history: a set() or clear() was called since construction
                    \* or since the last save() that returned without a failed write
    \* ---- buildDependencyGraph ----
    fs,             \* the project tree: path -> node
    run,            \* the last buildDependencyGraph call and what it returned
    prevRun,        \* history: the call before it
    fsTouched,      \* history: the tree changed since the last call
    steps,          \* history: tree changes and calls so far
    \* ---- riskCalculator ----
    riskChanged,    \* the paths of context.changedFiles
    assessment,     \* the RiskAssessment last returned, and by which function
    riskConfig,     \* context.config of the last riskCalculator.analyze call
    \* ---- monorepo ----
    manifests,      \* the workspace package.json files on disk, in glob order
    info,           \* the MonorepoInfo detectMonorepo returned
    mpc,            \* "setup" | "ready" | "loop" | "done" | "file"
    changedPackages,\* the changedPackages argument
    gapAffected,    \* getAffectedPackages: the Set affected
    gapQueue,       \* getAffectedPackages: the queue
    pkgForFile,     \* the last getPackageForFile call and what it returned
    \* ---- resolvePackageImport ----
    uiManifest,     \* the exports field of packages/ui/package.json
    uiFiles,        \* the files under packages/ui
    resolution,     \* the last resolvePackageImport call and what it returned
    graphEdge,      \* the last resolveImportPathWithMonorepo call and what it returned
    \* ---- addImpact, unitTestAnalyzer ----
    impactedTests,  \* a Map<string, ImpactReason[]> filled by the analyzer's addImpact
    sharedImpacts,  \* a Map<string, ImpactReason[]> filled by the shared addImpact
    lastAdd,        \* the last addImpact call and the reason list it found
    adds,           \* history: the addImpact calls so far
    utRun,          \* the last unitTestAnalyzer.analyze call and what it returned
    \* ---- getRouteSimilarity ----
    similarity,     \* the last getRouteSimilarity call and the number it returned
    \* ---- getFolderRiskLevel ----
    folderCall,     \* the last getFolderRiskLevel call and what it returned
    \* ---- detectMonorepo with its five markers ----
    detection,      \* the last detectMonorepo call over the marker files, and what it returned
    \* ---- save() and a concurrent reader of the cache file ----
    raceFile,       \* the cache file the two processes share
    saver,          \* the process that calls save(): where it is in writeFileSync
    observer        \* a second process constructing a CacheManager: what it read

gafVars == <<importedBy, gpc, changedFiles, maxDepth, affected, queue>>

cacheVars == <<disk, cpc, data, isDirty, lastCall, lastSet, loaded, calls, touched>>

buildVars == <<fs, run, prevRun, fsTouched, steps>>

riskVars == <<riskChanged, assessment, riskConfig>>

monoVars == <<manifests, info, mpc, changedPackages, gapAffected, gapQueue, pkgForFile>>

exportsVars == <<uiManifest, uiFiles, resolution, graphEdge>>

impactVars == <<impactedTests, sharedImpacts, lastAdd, adds, utRun>>

routeVars == <<similarity>>

folderVars == <<folderCall>>

detectVars == <<detection>>

raceVars == <<raceFile, saver, observer>>

\* the variables of the machines other than the first three
laterVars == <<riskVars, monoVars, exportsVars, impactVars, routeVars, folderVars, detectVars, raceVars>>

\* the later machines' variables a risk calculator step leaves alone
notRisk == <<monoVars, exportsVars, impactVars, routeVars, folderVars, detectVars, raceVars>>

\* the later machines' variables a monorepo step leaves alone
notMono == <<riskVars, exportsVars, impactVars, routeVars, folderVars, detectVars, raceVars>>

\* the later machines' variables a resolvePackageImport step leaves alone
notExports == <<riskVars, monoVars, impactVars, routeVars, folderVars, detectVars, raceVars>>

\* the later machines' variables an impact analysis step leaves alone
notImpact == <<riskVars, monoVars, exportsVars, routeVars, folderVars, detectVars, raceVars>>

\* the later machines' variables a route comparison leaves alone
notRoute == <<riskVars, monoVars, exportsVars, impactVars, folderVars, detectVars, raceVars>>

\* the later machines' variables a folder classification leaves alone
notFolder == <<riskVars, monoVars, exportsVars, impactVars, routeVars, detectVars, raceVars>>

\* the later machines' variables a marker detection leaves alone
notDetect == <<riskVars, monoVars, exportsVars, impactVars, routeVars, folderVars, raceVars>>

\* the later machines' variables a step of the save race leaves alone
notRace == <<riskVars, monoVars, exportsVars, impactVars, routeVars, folderVars, detectVars>>

vars == <<importedBy, gpc, changedFiles, maxDepth, affected, queue,
          disk, cpc, data, isDirty, lastCall, lastSet, loaded, calls, touched,
          fs, run, prevRun, fsTouched, steps,
          riskChanged, assessment, riskConfig,
          manifests, info, mpc, changedPackages, gapAffected, gapQueue, pkgForFile,
          uiManifest, uiFiles, resolution, graphEdge,
          impactedTests, sharedImpacts, lastAdd, adds, utRun,
          similarity,
          folderCall,
          detection,
          raceFile, saver, observer>>

\* ------------------------------------------------------------------------
\* Generic helpers
\* ------------------------------------------------------------------------

\* Map.set(k, v) on a function used as a Map
MapSet(m, k, v) == [x \in (DOMAIN m) \cup {k} |-> IF x = k THEN v ELSE m[x]]

\* the empty Map
EmptyMap == [x \in {} |-> 0]

\* the elements of a sequence
Range(s) == {s[i] : i \in DOMAIN s}

\* the project-relative paths a graph may mention
Files == {"a", "b", "c", "d"}

GafIdle ==
    /\ importedBy = [f \in Files |-> <<>>]
    /\ gpc = "build"
    /\ changedFiles = <<>>
    /\ maxDepth = 0
    /\ affected = EmptyMap
    /\ queue = <<>>

\* no assessment yet
NoAssessment == [fn |-> "none", level |-> "LOW", score |-> 0, signals |-> <<>>]

\* config.ts lines 23-43: DEFAULT_CONFIG, the two lists the risk rules name
DefaultRiskConfig == [highRiskFiles |-> <<>>, lowRiskFiles |-> <<>>]

RiskIdle ==
    /\ riskChanged = <<>>
    /\ assessment = NoAssessment
    /\ riskConfig = DefaultRiskConfig

\* the machines other than the first three, before anything happened
\* detectMonorepo's initial result (monorepo.ts lines 15-21)
NoInfo == [isMonorepo |-> FALSE, workspaces |-> <<>>, packageMap |-> EmptyMap]

\* no getPackageForFile call yet
NoLookup == [filePath |-> "", ws |-> 0]

MonoIdle ==
    /\ manifests = <<>>
    /\ info = NoInfo
    /\ mpc = "setup"
    /\ changedPackages = <<>>
    /\ gapAffected = {}
    /\ gapQueue = <<>>
    /\ pkgForFile = NoLookup

\* no resolvePackageImport call yet
NoResolution == [importPath |-> "", result |-> ""]

ExportsIdle ==
    /\ uiManifest = [kind |-> "none"]
    /\ uiFiles = {}
    /\ resolution = NoResolution
    /\ graphEdge = NoResolution

\* no addImpact call yet
NoAdd == [variant |-> "none", file |-> "", reason |-> <<>>, before |-> <<>>]

\* no unitTestAnalyzer.analyze call yet
NoAnalysis ==
    [called |-> FALSE, changed |-> <<>>, graph |-> 0, config |-> [maxDepth |-> 0],
     inserted |-> <<>>, results |-> <<>>]

ImpactIdle ==
    /\ impactedTests = EmptyMap
    /\ sharedImpacts = EmptyMap
    /\ lastAdd = NoAdd
    /\ adds = 0
    /\ utRun = NoAnalysis

\* no getRouteSimilarity call yet
NoSimilarity == [called |-> FALSE, route1 |-> "", route2 |-> "", num |-> 0, den |-> 1]

RouteIdle == similarity = NoSimilarity

\* no getFolderRiskLevel call yet
NoFolderRisk == [called |-> FALSE, filePath |-> "", level |-> "none"]

FolderIdle == folderCall = NoFolderRisk

\* no detectMonorepo call over the marker files yet
NoDetection == [called |-> FALSE, rootOk |-> FALSE, markers |-> <<>>, result |-> <<>>]

DetectIdle == detection = NoDetection

\* no save() begun and no second manager constructed yet
NoSaver == [pc |-> "idle", data |-> <<>>, previous |-> <<>>]
NoObserver == [pc |-> "idle", seen |-> <<>>, data |-> <<>>]

\* there is no cache file
RaceIdle ==
    /\ raceFile = [kind |-> "absent", version |-> "", hasEntries |-> FALSE,
                   entries |-> EmptyMap, fmt |-> "none"]
    /\ saver = NoSaver
    /\ observer = NoObserver

LaterIdle ==
    /\ RiskIdle /\ MonoIdle /\ ExportsIdle /\ ImpactIdle /\ RouteIdle /\ FolderIdle
    /\ DetectIdle /\ RaceIdle

\* ------------------------------------------------------------------------
\* The project tree buildDependencyGraph scans
\* ------------------------------------------------------------------------

\* the paths of the tree, relative to rootPath: three files of the root
\* directory, the directory u and its index file
SourcePaths == {"a.ts", "b.ts", "u.ts", "u/index.ts"}
Paths == SourcePaths \cup {"u"}

\* an import specifier as the patterns capture it: its leading "./", "@/" or
\* "~/" (or nothing, for a bare specifier) and its "/"-separated segments
Specifier(prefix, segs) == [prefix |-> prefix, segs |-> segs]

\* the text of a source file, as far as the scan sees it: the specifiers the
\* import patterns capture, in scan order, and the names the export patterns
\* capture
Content(id, imports, exports) == [id |-> id, imports |-> imports, exports |-> exports]

NoContent == Content("", <<>>, {})
ContentPlain == Content("plain", <<>>, {})
ContentB == Content("b", <<Specifier("", <<"react">>), Specifier("./", <<"b">>)>>, {"default"})
ContentU == Content("u", <<Specifier("./", <<"u">>), Specifier("@/", <<"b">>)>>, {"x"})
ContentPkg == Content("pkg", <<Specifier("", <<"@app", "ui">>), Specifier("./", <<"b">>)>>, {})

\* the texts a file may be given
ContentsOf(p) ==
    CASE p = "a.ts" -> {ContentB, ContentU, ContentPkg}
      [] p = "b.ts" -> {ContentPlain, ContentU}
      [] p = "u.ts" -> {ContentB}
      [] OTHER -> {ContentPlain}

Node(kind, content, readable) == [kind |-> kind, content |-> content, readable |-> readable]
NoNode == Node("none", NoContent, TRUE)
DirNode == Node("dir", NoContent, TRUE)
FileNode(content) == Node("file", content, TRUE)

InitialTree ==
    [p \in Paths |-> CASE p = "a.ts" -> FileNode(ContentB)
                       [] p = "b.ts" -> FileNode(ContentPlain)
                       [] p = "u.ts" -> FileNode(ContentB)
                       [] OTHER -> NoNode]

\* a MonorepoInfo: none, or one with the workspace @app/ui in directory u
\* whose manifest names no exports, main or module
Monorepos == {"none", "app"}

\* A call of buildDependencyGraph: status "returned" or "threw" (error names
\* what was thrown), its options, the graph it built, the files whose imports
\* it extracted from their text, whether the cache file could be read,
\* whether at the end the cache file held the manager's store, and whether
\* the tree had changed since the call before
Run(status, error, noCache, monorepo, imports, reverse, exports, extracted, cacheRead, persisted, treeChanged) ==
    [status |-> status, error |-> error, noCache |-> noCache, monorepo |-> monorepo,
     imports |-> imports, importedBy |-> reverse, exports |-> exports,
     extracted |-> extracted, cacheRead |-> cacheRead, persisted |-> persisted,
     treeChanged |-> treeChanged]

NoRun == Run("none", "", FALSE, "none", EmptyMap, EmptyMap, EmptyMap, {}, FALSE, FALSE, FALSE)

BuildIdle ==
    /\ fs = InitialTree
    /\ run = NoRun
    /\ prevRun = NoRun
    /\ fsTouched = FALSE
    /\ steps = 0

\* ------------------------------------------------------------------------
\* CacheManager (src/core/cache.ts)
\* ------------------------------------------------------------------------

\* private readonly VERSION
VERSION == "1.0.0"

\* the file paths, content hashes and import lists the calls draw from
CacheFiles == {"f.ts", "g.ts"}
Hashes == {"h1", "h2"}
ImportLists == {<<>>, <<"x.ts">>}

\* the calls made on one manager after its construction
MaxCalls == 3

\* CacheEntry; the timestamp, which nothing reads, is left out
Entry(h, imports) == [hash |-> h, imports |-> imports]

\* A cache file. kind: "absent" (no file), "corrupt" (text JSON.parse
\* rejects, a partly written file included), "null" (the JSON value null),
\* "json" (a JSON object). A JSON object has a version, may lack the entries
\* map, and is laid out as JSON.stringify(data, null, 2) lays it out
\* ("pretty") or otherwise ("compact").
Doc(kind, version, hasEntries, entries, fmt) ==
    [kind |-> kind, version |-> version, hasEntries |-> hasEntries,
     entries |-> entries, fmt |-> fmt]

AbsentDoc == Doc("absent", "", FALSE, EmptyMap, "none")
CorruptDoc == Doc("corrupt", "", FALSE, EmptyMap, "none")
NullDoc == Doc("null", "", FALSE, EmptyMap, "none")

\* { version: this.VERSION, entries: {} } (lines 42, 60, 65, 122)
FreshData == [version |-> VERSION, hasEntries |-> TRUE, entries |-> EmptyMap]

\* lines 49-68: load(). readOk: readFileSync returned the text
Load(d, readOk) ==
    IF d.kind = "absent" THEN FreshData                \* existsSync is false
    ELSE IF ~readOk THEN FreshData                      \* readFileSync throws: catch
    ELSE IF d.kind = "corrupt" THEN FreshData           \* JSON.parse throws: catch
    ELSE IF d.kind = "null" THEN FreshData              \* loaded.version throws: catch
    ELSE IF d.version = VERSION
         THEN [version |-> d.version, hasEntries |-> d.hasEntries,
               entries |-> d.entries]                   \* this.data = loaded
         ELSE FreshData

\* line 81: JSON.stringify(this.data, null, 2)
Stringify(d) == Doc("json", d.version, d.hasEntries, d.entries, "pretty")

\* lines 98-104: get(). this.data.entries[filePath] throws a TypeError when
\* the loaded document had no entries map
CacheGetIgnoresHash(d, f, h) ==
    IF ~d.hasEntries THEN [outcome |-> "threw", value |-> <<>>]
    ELSE IF f \in DOMAIN d.entries
         THEN [outcome |-> "value", value |-> d.entries[f].imports]
         ELSE [outcome |-> "null", value |-> <<>>]

CacheGet(d, f, h) ==
    IF ~d.hasEntries THEN [outcome |-> "threw", value |-> <<>>]
    ELSE IF f \in DOMAIN d.entries /\ d.entries[f].hash = h
         THEN [outcome |-> "value", value |-> d.entries[f].imports]
         ELSE [outcome |-> "null", value |-> <<>>]

\* lines 109-116: set(). The assignment into this.data.entries throws when
\* there is no entries map, before isDirty is set
CacheSet(d, dirty, f, h, imports) ==
    IF ~d.hasEntries
    THEN [data |-> d, isDirty |-> dirty, outcome |-> "threw"]
    ELSE [data |-> [d EXCEPT !.entries = MapSet(@, f, Entry(h, imports))],
          isDirty |-> TRUE, outcome |-> "ok"]

\* lines 73-86: save(). write: what mkdirSync and writeFileSync do, "ok", or
\* a failure that leaves the file as it was ("failed") or cut short ("partial")
WriteOutcomes == {"ok", "failed", "partial"}

CacheSaveAlways(d, dirty, file, write) ==
    IF write = "ok"
    THEN [disk |-> Stringify(d), isDirty |-> FALSE]
    ELSE [disk |-> IF write = "partial" THEN CorruptDoc ELSE file, isDirty |-> dirty]

CacheSave(d, dirty, file, write) ==
    IF ~dirty THEN [disk |-> file, isDirty |-> dirty]
    ELSE IF write = "ok"
         THEN [disk |-> Stringify(d), isDirty |-> FALSE]
         ELSE [disk |-> IF write = "partial" THEN CorruptDoc ELSE file,
               isDirty |-> dirty]                        \* catch: warn

Call(op, f, h, outcome, value) ==
    [op |-> op, file |-> f, hash |-> h, outcome |-> outcome, value |-> value]

NoCall == Call("none", "", "", "ok", <<>>)

\* lines 40-44: the constructor
Construct(readOk) ==
    /\ cpc = "new"
    /\ LET d == Load(disk, readOk)
       IN /\ data' = d
          /\ loaded' = d.entries
    /\ isDirty' = FALSE
    /\ cpc' = "live"
    /\ lastSet' = EmptyMap
    /\ touched' = FALSE
    /\ UNCHANGED <<disk, lastCall, calls>>
    /\ UNCHANGED <<gafVars, buildVars, laterVars>>

Get(f, h) ==
    /\ cpc = "live"
    /\ calls < MaxCalls
    /\ LET r == CacheGet(data, f, h)
       IN lastCall' = Call("get", f, h, r.outcome, r.value)
    /\ calls' = calls + 1
    /\ UNCHANGED <<disk, cpc, data, isDirty, lastSet, loaded, touched>>
    /\ UNCHANGED <<gafVars, buildVars, laterVars>>

Set(f, h, imports) ==
    /\ cpc = "live"
    /\ calls < MaxCalls
    /\ LET r == CacheSet(data, isDirty, f, h, imports)
       IN /\ data' = r.data
          /\ isDirty' = r.isDirty
          /\ lastCall' = Call("set", f, h, r.outcome, imports)
    /\ lastSet' = MapSet(lastSet, f, Entry(h, imports))
    /\ touched' = TRUE
    /\ calls' = calls + 1
    /\ UNCHANGED <<disk, cpc, loaded>>
    /\ UNCHANGED <<gafVars, buildVars, laterVars>>

Save(write) ==
    /\ cpc = "live"
    /\ calls < MaxCalls
    /\ LET r == CacheSave(data, isDirty, disk, write)
       IN /\ disk' = r.disk
          /\ isDirty' = r.isDirty
          /\ touched' = (touched /\ r.isDirty)
    /\ lastCall' = Call("save", "", "", "ok", <<>>)
    /\ calls' = calls + 1
    /\ UNCHANGED <<cpc, data, lastSet, loaded>>
    /\ UNCHANGED <<gafVars, buildVars, laterVars>>

\* lines 121-125: clear()
Clear(write) ==
    /\ cpc = "live"
    /\ calls < MaxCalls
    /\ data' = FreshData
    /\ LET r == CacheSave(FreshData, TRUE, disk, write)
       IN /\ disk' = r.disk
          /\ isDirty' = r.isDirty
          /\ touched' = r.isDirty
    /\ lastCall' = Call("clear", "", "", "ok", <<>>)
    /\ lastSet' = EmptyMap
    /\ loaded' = EmptyMap
    /\ calls' = calls + 1
    /\ UNCHANGED cpc
    /\ UNCHANGED <<gafVars, buildVars, laterVars>>

\* every entries map over CacheFiles
EntryMaps ==
    UNION {[S -> {Entry(h, i) : h \in Hashes, i \in ImportLists}] : S \in SUBSET CacheFiles}

\* what the cache file may hold when the manager is constructed
InitialDocs ==
    {AbsentDoc, CorruptDoc, NullDoc}
    \cup {Doc("json", v, e, IF e THEN m ELSE EmptyMap, fmt) :
            v \in {VERSION, "0.9.0"}, e \in BOOLEAN, m \in EntryMaps,
            fmt \in {"pretty", "compact"}}

CacheIdle ==
    /\ disk = AbsentDoc
    /\ cpc = "new"
    /\ data = FreshData
    /\ isDirty = FALSE
    /\ lastCall = NoCall
    /\ lastSet = EmptyMap
    /\ loaded = EmptyMap
    /\ touched = FALSE
    /\ calls = 0

InitCache ==
    /\ disk \in InitialDocs
    /\ cpc = "new"
    /\ data = FreshData
    /\ isDirty = FALSE
    /\ lastCall = NoCall
    /\ lastSet = EmptyMap
    /\ loaded = EmptyMap
    /\ touched = FALSE
    /\ calls = 0
    /\ GafIdle
    /\ BuildIdle
    /\ LaterIdle

NextCache ==
    \/ \E readOk \in BOOLEAN : Construct(readOk)
    \/ \E f \in CacheFiles, h \in Hashes : Get(f, h)
    \/ \E f \in CacheFiles, h \in Hashes, i \in ImportLists : Set(f, h, i)
    \/ \E w \in WriteOutcomes : Save(w)
    \/ \E w \in WriteOutcomes : Clear(w)

SpecCache == InitCache /\ [][NextCache]_vars

\* ------------------------------------------------------------------------
\* Properties of the CacheManager
\* ------------------------------------------------------------------------

IsGet == lastCall.op = "get"

\* the latest set() for the file of the last get(), if any since the last clear()
SetSinceClear == lastCall.file \in DOMAIN lastSet

\* C6 as stated: get(f, h) returns the imports of the most recent set(f, h', _)
\* exactly when such a set exists since the last clear() and h' = h, and
\* returns null in every other case.
C6_GetIffSet ==
    IsGet /\ lastCall.outcome /= "threw" =>
        IF SetSinceClear /\ lastSet[lastCall.file].hash = lastCall.hash
        THEN lastCall.outcome = "value"
             /\ lastCall.value = lastSet[lastCall.file].imports
        ELSE lastCall.outcome = "null"

\* the entry the store holds for f: that of the latest set() since the last
\* clear(), else the one load() took from the cache file
HasStored(f) == f \in DOMAIN lastSet \/ f \in DOMAIN loaded
Stored(f) == IF f \in DOMAIN lastSet THEN lastSet[f] ELSE loaded[f]

\* C6 amended: get(f, h) returns the imports of the entry the store holds for
\* f (the latest set() since the last clear(), else, with no clear() so far,
\* the entry loaded from the cache file at construction) exactly when there
\* is one and its hash is h, and null otherwise; it throws exactly when the
\* loaded document has no entries map and no clear() has replaced it.
C6_GetReturnsStored ==
    IsGet =>
        IF ~data.hasEntries THEN lastCall.outcome = "threw"
        ELSE IF HasStored(lastCall.file) /\ Stored(lastCall.file).hash = lastCall.hash
             THEN lastCall.outcome = "value"
                  /\ lastCall.value = Stored(lastCall.file).imports
             ELSE lastCall.outcome = "null"

\* get() returned the entry load() took from the cache file for a file that
\* had no set(), after a set() for another file
C6_Witness ==
    /\ IsGet
    /\ lastCall.outcome = "value"
    /\ ~SetSinceClear
    /\ \E g \in DOMAIN lastSet : g /= lastCall.file

\* C8: the cache file changes only in save() and clear(), and save() leaves
\* it as it is when no set() or clear() was called since construction or
\* since the last save() whose write did not fail.
C8_WritesOnlyOnSave ==
    [][/\ disk' /= disk => lastCall'.op \in {"save", "clear"} /\ calls' = calls + 1
       /\ (calls' = calls + 1 /\ lastCall'.op = "save" /\ ~touched) => disk' = disk
      ]_vars

\* save() on a manager that loaded a compact document with entries and had
\* no set() or clear() since: the file is still the compact one
C8_Witness ==
    /\ lastCall.op = "save"
    /\ calls = 1
    /\ disk.kind = "json" /\ disk.fmt = "compact" /\ disk.version = VERSION
    /\ data.hasEntries /\ DOMAIN data.entries /= {}

\* C9: whatever the cache file holds, construction and every later get, set
\* and save complete without throwing, and a manager constructed over an
\* unparseable or other-version file starts empty.
C9_NeverThrows ==
    /\ lastCall.outcome /= "threw"
    /\ (cpc = "live" /\ calls = 0
        /\ (disk.kind = "corrupt" \/ (disk.kind = "json" /\ disk.version /= VERSION)))
       => data = FreshData

\* ------------------------------------------------------------------------
\* buildDependencyGraph (src/core/dependency-graph.ts)
\* ------------------------------------------------------------------------

\* tree changes and calls in one behaviour
MaxSteps == 3

\* the null a resolver returns; like null, the empty string is falsy
Null == ""

\* existsSync: true of files and of directories
Exists(tree, p) == p \in DOMAIN tree /\ tree[p].kind /= "none"

\* segments joined by "/"
RECURSIVE Join(_)
Join(segs) ==
    IF Len(segs) = 0 THEN ""
    ELSE IF Len(segs) = 1 THEN segs[1]
    ELSE segs[1] \o "/" \o Join(Tail(segs))

\* dirname of a project-relative path of the tree
Dirname(file) == IF file = "u/index.ts" THEN "u" ELSE "."

\* relative(rootPath, resolve(fromDir, "./" + rest))
ResolveRelative(fromDir, rest) == IF fromDir = "." THEN rest ELSE fromDir \o "/" \o rest

\* lines 221-230
Extensions == <<"", ".ts", ".tsx", ".js", ".jsx", "/index.ts", "/index.tsx", "/index.js">>

\* lines 232-239: the first candidate that exists
RECURSIVE FirstExisting(_, _, _, _)
FirstExisting(tree, base, exts, i) ==
    IF i > Len(exts) THEN Null
    ELSE IF Exists(tree, base \o exts[i]) THEN base \o exts[i]
    ELSE FirstExisting(tree, base, exts, i + 1)

\* lines 202-240: resolveImportPath
ResolveImportPath(tree, spec, fromDir) ==
    IF spec.prefix = "" THEN Null                               \* external package
    ELSE LET rest == IF spec.prefix \in {"@/", "~/"}
                     THEN "src/" \o Join(spec.segs)              \* alias: "./src/..."
                     ELSE Join(spec.segs)
         IN FirstExisting(tree, ResolveRelative(fromDir, rest), Extensions, 1)

\* lines 274-284: getPackageNameFromImport
PackageName(segs) ==
    IF segs[1] \in {"@app"} /\ Len(segs) >= 2 THEN segs[1] \o "/" \o segs[2]
    ELSE segs[1]

\* monorepo.packageMap: package name -> workspace directory
PackageMap(monorepo) == IF monorepo = "app" THEN [n \in {"@app/ui"} |-> "u"] ELSE EmptyMap

\* unnamed/part_007 lines 333-363: resolveWithExtensions
ResolveWithExtensions(tree, filePath) ==
    IF Exists(tree, filePath)
    THEN IF tree[filePath].kind = "dir"
         THEN IF Exists(tree, filePath \o "/index.ts") THEN filePath \o "/index.ts"
              ELSE IF Exists(tree, filePath \o "/index.js") THEN filePath \o "/index.js"
              ELSE filePath
         ELSE filePath
    ELSE FirstExisting(tree, filePath, Tail(Extensions), 1)

\* unnamed/part_007 lines 259-276: the entry points tried for the package root
\* of a manifest without main and module
EntryPoints == <<"src/index.ts", "src/index.js", "index.ts", "index.js">>

RECURSIVE FirstEntry(_, _, _)
FirstEntry(tree, wsPath, i) ==
    IF i > Len(EntryPoints) THEN Null
    ELSE LET r == ResolveWithExtensions(tree, wsPath \o "/" \o EntryPoints[i])
         IN IF r /= Null THEN r ELSE FirstEntry(tree, wsPath, i + 1)

\* unnamed/part_007 lines 220-296: resolvePackageImport for a package name
\* (subpath "."); the manifest is read from the workspace directory
ResolvePackageImport(tree, name, monorepo) ==
    IF name \notin DOMAIN PackageMap(monorepo) THEN Null
    ELSE LET wsPath == PackageMap(monorepo)[name]
         IN IF ~Exists(tree, wsPath) THEN Null               \* readPackageJson: null
            ELSE FirstEntry(tree, wsPath, 1)

\* lines 245-269: resolveImportPathWithMonorepo
ResolveImportPathWithMonorepo(tree, spec, fromDir, monorepo) ==
    LET viaPackage ==
            IF monorepo /= "none" /\ spec.prefix = ""
               /\ PackageName(spec.segs) \in DOMAIN PackageMap(monorepo)
            THEN ResolvePackageImport(tree, PackageName(spec.segs), monorepo)
            ELSE Null
    IN IF viaPackage /= Null THEN viaPackage
       ELSE ResolveImportPath(tree, spec, fromDir)

\* Set.add on a Set kept as its insertion-ordered elements
SetAdd(elems, x) == IF x \in Range(elems) THEN elems ELSE Append(elems, x)

\* lines 134-143, 177-191: every captured specifier is resolved and kept if
\* it resolves
RECURSIVE ResolveAll(_, _, _, _, _, _)
ResolveAll(tree, specs, i, fromDir, monorepo, acc) ==
    IF i > Len(specs) THEN acc
    ELSE LET resolved == IF monorepo = "none"
                         THEN ResolveImportPath(tree, specs[i], fromDir)
                         ELSE ResolveImportPathWithMonorepo(tree, specs[i], fromDir, monorepo)
         IN ResolveAll(tree, specs, i + 1, fromDir, monorepo,
                       IF resolved /= Null THEN SetAdd(acc, resolved) ELSE acc)

\* readFileSync: it throws unless the path is a readable file
Readable(tree, p) == Exists(tree, p) /\ tree[p].kind = "file" /\ tree[p].readable

\* lines 108-149 and 154-197: extractImports, extractImportsWithMonorepo
ExtractImports(tree, file, monorepo) ==
    IF ~Exists(tree, file) THEN <<>>
    ELSE IF ~Readable(tree, file) THEN <<>>                      \* catch
    ELSE ResolveAll(tree, tree[file].content.imports, 1, Dirname(file), monorepo, <<>>)

\* lines 289-338: extractExports
ExtractExports(tree, file) ==
    IF ~Exists(tree, file) THEN {}
    ELSE IF ~Readable(tree, file) THEN {}                        \* catch
    ELSE tree[file].content.exports

\* cache.ts lines 91-93: getFileHash, a digest that tells the texts apart
FileHash(content) == "md5:" \o content.id

\* lines 40-44: glob("**/*.{ts,tsx,js,jsx}"): the files of the tree
GlobOrder == <<"a.ts", "b.ts", "u.ts", "u/index.ts">>
Glob(tree) == SelectSeq(GlobOrder, LAMBDA p : tree[p].kind = "file")

\* lines 75-80: the reverse mapping of one file's imports
RECURSIVE AddImportedByOverwrites(_, _, _, _)
AddImportedByOverwrites(reverse, imports, i, file) ==
    IF i > Len(imports) THEN reverse
    ELSE AddImportedByOverwrites(MapSet(reverse, imports[i], {file}), imports, i + 1, file)

RECURSIVE AddImportedBy(_, _, _, _)
AddImportedBy(reverse, imports, i, file) ==
    IF i > Len(imports) THEN reverse
    ELSE LET importedFile == imports[i]
             before == IF importedFile \in DOMAIN reverse THEN reverse[importedFile] ELSE {}
         IN AddImportedBy(MapSet(reverse, importedFile, before \cup {file}),
                          imports, i + 1, file)

\* lines 50-70: the imports of one file. With a cache the file is read
\* outside any try (line 53) and looked up under its hash; the result tells
\* what was thrown, if anything
FileImportsNoSet(tree, file, monorepo, useCache, store, dirty) ==
    IF ~useCache
    THEN [error |-> "", imports |-> ExtractImports(tree, file, monorepo),
          data |-> store, isDirty |-> dirty, extracted |-> TRUE]
    ELSE IF ~Readable(tree, file)
    THEN [error |-> "EACCES", imports |-> <<>>, data |-> store, isDirty |-> dirty,
          extracted |-> FALSE]
    ELSE LET hash == FileHash(tree[file].content)
             cached == CacheGet(store, file, hash)
         IN IF cached.outcome = "threw"
            THEN [error |-> "TypeError", imports |-> <<>>, data |-> store,
                  isDirty |-> dirty, extracted |-> FALSE]
            ELSE IF cached.outcome = "value"
            THEN [error |-> "", imports |-> cached.value, data |-> store,
                  isDirty |-> dirty, extracted |-> FALSE]
            ELSE [error |-> "", imports |-> ExtractImports(tree, file, monorepo),
                  data |-> store, isDirty |-> dirty, extracted |-> TRUE]

FileImports(tree, file, monorepo, useCache, store, dirty) ==
    IF ~useCache
    THEN [error |-> "", imports |-> ExtractImports(tree, file, monorepo),
          data |-> store, isDirty |-> dirty, extracted |-> TRUE]
    ELSE IF ~Readable(tree, file)
    THEN [error |-> "EACCES", imports |-> <<>>, data |-> store, isDirty |-> dirty,
          extracted |-> FALSE]                                   \* line 53 throws
    ELSE LET hash == FileHash(tree[file].content)
             cached == CacheGet(store, file, hash)
         IN IF cached.outcome = "threw"
            THEN [error |-> "TypeError", imports |-> <<>>, data |-> store,
                  isDirty |-> dirty, extracted |-> FALSE]        \* line 55 throws
            ELSE IF cached.outcome = "value"
            THEN [error |-> "", imports |-> cached.value, data |-> store,
                  isDirty |-> dirty, extracted |-> FALSE]        \* cache hit
            ELSE LET imports == ExtractImports(tree, file, monorepo)
                     r == CacheSet(store, dirty, file, hash, imports)
                 IN [error |-> "", imports |-> imports, data |-> r.data,
                     isDirty |-> r.isDirty, extracted |-> TRUE]

\* lines 72-84: what one iteration records for a file, r being what lines
\* 50-70 gave for it
BuildStep(tree, file, st, r) ==
    IF r.error /= "" THEN [st EXCEPT !.error = r.error]
    ELSE [error |-> "",
          imports |-> MapSet(st.imports, file, Range(r.imports)),
          importedBy |-> AddImportedBy(st.importedBy, r.imports, 1, file),
          exports |-> MapSet(st.exports, file, ExtractExports(tree, file)),
          data |-> r.data,
          isDirty |-> r.isDirty,
          extracted |-> IF r.extracted THEN st.extracted \cup {file} ELSE st.extracted]

\* lines 47-85: the loop over the enumerated files; it ends at the first
\* throw. Each iteration starts from the value the one before it left.
RECURSIVE BuildLoop(_, _, _, _, _, _)
BuildLoop(tree, files, i, monorepo, useCache, st) ==
    IF i > Len(files) \/ st.error /= "" THEN st
    ELSE CHOOSE out \in
            {BuildLoop(tree, files, i + 1, monorepo, useCache, next) :
                next \in {BuildStep(tree, files[i], st, r) :
                            r \in {FileImports(tree, files[i], monorepo, useCache,
                                               st.data, st.isDirty)}}} : TRUE

\* the graph and the store before the first iteration
BuildStart(store) ==
    [error |-> "", imports |-> EmptyMap, importedBy |-> EmptyMap, exports |-> EmptyMap,
     data |-> store, isDirty |-> FALSE, extracted |-> {}]

\* lines 87-89: cache.save(), reached when there is a cache and nothing threw
BuildSave(noCache, st, file, write) ==
    IF noCache \/ st.error /= ""
    THEN [disk |-> file, isDirty |-> st.isDirty]
    ELSE CacheSave(st.data, st.isDirty, file, write)

\* lines 19-92: buildDependencyGraph(rootPath, {noCache, monorepo}). readOk
\* and write: what reading and writing the cache file do in this call
BuildDependencyGraph(noCache, monorepo, readOk, write) ==
    /\ steps < MaxSteps
    /\ \E store \in {IF noCache THEN FreshData ELSE Load(disk, readOk)} :
       \E st \in {BuildLoop(fs, Glob(fs), 1, monorepo, ~noCache, BuildStart(store))} :
       \E saved \in {BuildSave(noCache, st, disk, write)} :
          /\ disk' = saved.disk
          /\ run' = IF st.error /= ""
                    THEN Run("threw", st.error, noCache, monorepo,
                             EmptyMap, EmptyMap, EmptyMap, st.extracted,
                             readOk \/ disk.kind = "absent", FALSE, fsTouched)
                    ELSE Run("returned", "", noCache, monorepo,
                             st.imports, st.importedBy, st.exports, st.extracted,
                             readOk \/ disk.kind = "absent",
                             ~noCache /\ Load(saved.disk, TRUE) = st.data, fsTouched)
    /\ prevRun' = run
    /\ fsTouched' = FALSE
    /\ steps' = steps + 1
    /\ UNCHANGED fs
    /\ UNCHANGED <<gafVars, cpc, data, isDirty, lastCall, lastSet, loaded, calls, touched, laterVars>>

\* ---- the tree changes between calls ----

TreeStep(tree) ==
    /\ steps < MaxSteps
    /\ fs' = tree
    /\ tree /= fs
    /\ fsTouched' = TRUE
    /\ steps' = steps + 1
    /\ UNCHANGED <<run, prevRun, disk>>
    /\ UNCHANGED <<gafVars, cpc, data, isDirty, lastCall, lastSet, loaded, calls, touched, laterVars>>

\* a file is created or edited
WriteFile(p, content) ==
    /\ fs[p].kind \in {"none", "file"}
    /\ p = "u/index.ts" => fs["u"].kind = "dir"
    /\ TreeStep([fs EXCEPT ![p] = FileNode(content)])

\* a file is deleted
DeleteFile(p) ==
    /\ fs[p].kind = "file"
    /\ TreeStep([fs EXCEPT ![p] = NoNode])

\* the directory u is created
MakeDir ==
    /\ fs["u"].kind = "none"
    /\ TreeStep([fs EXCEPT !["u"] = DirNode])

\* the directory u is removed with what it holds
RemoveDir ==
    /\ fs["u"].kind = "dir"
    /\ TreeStep([fs EXCEPT !["u"] = NoNode, !["u/index.ts"] = NoNode])

\* a file loses its read permission
MakeUnreadable(p) ==
    /\ fs[p].kind = "file"
    /\ TreeStep([fs EXCEPT ![p].readable = FALSE])

\* the cache file a first call may find: none, an unparseable one, or a
\* document of the current version without an entries map
InitialCacheFiles == {AbsentDoc, CorruptDoc, Doc("json", VERSION, FALSE, EmptyMap, "compact")}

InitBuild ==
    /\ BuildIdle
    /\ disk \in InitialCacheFiles
    /\ cpc = "new"
    /\ data = FreshData
    /\ isDirty = FALSE
    /\ lastCall = NoCall
    /\ lastSet = EmptyMap
    /\ loaded = EmptyMap
    /\ touched = FALSE
    /\ calls = 0
    /\ GafIdle
    /\ LaterIdle

NextBuild ==
    \/ \E monorepo \in Monorepos : BuildDependencyGraph(TRUE, monorepo, TRUE, "ok")
    \/ \E monorepo \in Monorepos, readOk \in BOOLEAN, write \in WriteOutcomes :
          BuildDependencyGraph(FALSE, monorepo, readOk, write)
    \/ \E p \in SourcePaths : \E c \in ContentsOf(p) : WriteFile(p, c)
    \/ \E p \in SourcePaths : DeleteFile(p)
    \/ MakeDir
    \/ RemoveDir
    \/ \E p \in {"a.ts", "b.ts"} : MakeUnreadable(p)

SpecBuild == InitBuild /\ [][NextBuild]_vars

\* ------------------------------------------------------------------------
\* Properties of buildDependencyGraph
\* ------------------------------------------------------------------------

Returned(r) == r.status = "returned"

ImportsOf(r, a) == IF a \in DOMAIN r.imports THEN r.imports[a] ELSE {}
ImportedByOf(r, b) == IF b \in DOMAIN r.importedBy THEN r.importedBy[b] ELSE {}

\* every path a returned graph mentions
Mentioned(r) ==
    DOMAIN r.imports \cup DOMAIN r.importedBy
    \cup UNION {r.imports[a] : a \in DOMAIN r.imports}
    \cup UNION {r.importedBy[b] : b \in DOMAIN r.importedBy}

\* C4: in every returned graph, b is in imports[a] exactly when a is in
\* importedBy[b].
C4_Symmetric ==
    Returned(run) =>
        \A a \in Mentioned(run), b \in Mentioned(run) :
            b \in ImportsOf(run, a) <=> a \in ImportedByOf(run, b)

\* a graph built with the cache and a monorepo context, after one built
\* without either, in which some file has two importers
C4_Witness ==
    /\ Returned(run) /\ ~run.noCache /\ run.monorepo = "app"
    /\ Returned(prevRun) /\ prevRun.noCache /\ prevRun.monorepo = "none"
    /\ \E b \in DOMAIN run.importedBy : Cardinality(run.importedBy[b]) >= 2

\* the paths a returned graph records as imported
Recorded(r) ==
    DOMAIN r.importedBy \cup UNION {r.imports[a] : a \in DOMAIN r.imports}

\* C5: every path a returned graph records in an imports set or as a key of
\* importedBy is a file of that call's scan set or a file that exists when
\* the call is made: never a directory, never a file deleted before the call.
C5_OnlyExistingFiles ==
    (Returned(run) /\ ~fsTouched) =>
        \A p \in Recorded(run) : p \in DOMAIN run.imports \/ fs[p].kind = "file"

\* the call before the last was made with the cache on the same tree
SecondCachedRun ==
    /\ Returned(run) /\ ~run.noCache
    /\ Returned(prevRun) /\ ~prevRun.noCache
    /\ ~run.treeChanged

C10_UnreadableTolerated ==
    (run.status /= "none" /\ ~fsTouched) =>
        /\ run.error /= "EACCES"
        /\ Returned(run) =>
             \A f \in DOMAIN run.imports :
                 ~fs[f].readable => run.imports[f] = {} /\ run.exports[f] = {}

\* the graph a call with noCache and the same monorepo context builds on the
\* tree as it is
Uncached(monorepo) == BuildLoop(fs, Glob(fs), 1, monorepo, FALSE, BuildStart(FreshData))

\* C29: a call with the cache returns the imports and importedBy maps that
\* a call with noCache returns on the same tree, whatever was created,
\* deleted or edited since the entries it reads were cached
C29_CacheTransparent ==
    (Returned(run) /\ ~run.noCache /\ ~fsTouched) =>
        /\ run.imports = Uncached(run.monorepo).imports
        /\ run.importedBy = Uncached(run.monorepo).importedBy

\* ------------------------------------------------------------------------
\* getAffectedFiles
\* ------------------------------------------------------------------------

\* the edges of the graph and the changed paths of the call, together
MaxInputSize == 4
\* the largest maxDepth argument
MaxDepthBound == 2

EdgeCount == Len(importedBy["a"]) + Len(importedBy["b"])
             + Len(importedBy["c"]) + Len(importedBy["d"])

\* graph.importedBy.get(importedFile).add(file): a Set keeps insertion order
\* and ignores an element it already holds
AddImporter(importedFile, file) ==
    /\ gpc = "build"
    /\ EdgeCount + Len(changedFiles) < MaxInputSize
    /\ file \notin Range(importedBy[importedFile])
    /\ importedBy' = [importedBy EXCEPT ![importedFile] = Append(@, file)]
    /\ UNCHANGED <<gpc, changedFiles, maxDepth, affected, queue>>
    /\ UNCHANGED <<cacheVars, buildVars, laterVars>>

\* the caller's changedFiles argument grows by one path (paths may repeat)
PickChanged(file) ==
    /\ gpc = "build"
    /\ EdgeCount + Len(changedFiles) < MaxInputSize
    /\ changedFiles' = Append(changedFiles, file)
    /\ UNCHANGED <<importedBy, gpc, maxDepth, affected, queue>>
    /\ UNCHANGED <<cacheVars, buildVars, laterVars>>

\* lines 349-356: seed every changed file at depth 0
RECURSIVE SeedChanged(_, _, _, _)
SeedChanged(changed, i, aff, q) ==
    IF i > Len(changed) THEN [aff |-> aff, q |-> q]
    ELSE SeedChanged(changed, i + 1, MapSet(aff, changed[i], 0),
                     Append(q, [file |-> changed[i], depth |-> 0]))

\* lines 344-356: the call with its maxDepth argument, up to the while loop
GafCall(md) ==
    /\ gpc = "build"
    /\ LET s == SeedChanged(changedFiles, 1, EmptyMap, <<>>)
       IN /\ affected' = s.aff
          /\ queue' = s.q
    /\ maxDepth' = md
    /\ gpc' = "loop"
    /\ UNCHANGED <<importedBy, changedFiles>>
    /\ UNCHANGED <<cacheVars, buildVars, laterVars>>

\* line 367: the test that decides whether an importer is (re)recorded
NoVisitedCheck(aff, importer, depth) == TRUE

ShouldRecord(aff, importer, depth) ==
    importer \notin DOMAIN aff \/ aff[importer] > depth + 1

\* line 362: the depth cut-off
DepthCutLate(depth, md) == depth > md

DepthCut(depth, md) == depth >= md

\* lines 366-371: the for loop over the importers of the dequeued file
RECURSIVE ExpandImportersNoProgress(_, _, _, _, _)
ExpandImportersNoProgress(importers, i, depth, aff, q) ==
    IF i > Len(importers) THEN [aff |-> aff, q |-> q]
    ELSE LET importer == importers[i]
         IN IF importer \notin DOMAIN aff \/ aff[importer] >= depth + 1
            THEN ExpandImportersNoProgress(importers, i + 1, depth,
                                 MapSet(aff, importer, depth + 1),
                                 Append(q, [file |-> importer, depth |-> depth]))
            ELSE ExpandImportersNoProgress(importers, i + 1, depth, aff, q)

RECURSIVE ExpandImporters(_, _, _, _, _)
ExpandImporters(importers, i, depth, aff, q) ==
    IF i > Len(importers) THEN [aff |-> aff, q |-> q]
    ELSE LET importer == importers[i]
         IN IF ShouldRecord(aff, importer, depth)
            THEN ExpandImporters(importers, i + 1, depth,
                                 MapSet(aff, importer, depth + 1),
                                 Append(q, [file |-> importer, depth |-> depth + 1]))
            ELSE ExpandImporters(importers, i + 1, depth, aff, q)

\* lines 359-373: one iteration of the while loop
GafLoop ==
    /\ gpc = "loop"
    /\ Len(queue) > 0
    /\ LET head == Head(queue)
           rest == Tail(queue)
       IN IF DepthCut(head.depth, maxDepth)
          THEN /\ queue' = rest
               /\ UNCHANGED affected
          ELSE LET r == ExpandImporters(importedBy[head.file], 1, head.depth,
                                        affected, rest)
               IN /\ affected' = r.aff
                  /\ queue' = r.q
    /\ UNCHANGED <<importedBy, gpc, changedFiles, maxDepth>>
    /\ UNCHANGED <<cacheVars, buildVars, laterVars>>

\* lines 359, 375: the queue is empty, the loop ends and affected is returned
GafReturn ==
    /\ gpc = "loop"
    /\ Len(queue) = 0
    /\ gpc' = "done"
    /\ UNCHANGED <<importedBy, changedFiles, maxDepth, affected, queue>>
    /\ UNCHANGED <<cacheVars, buildVars, laterVars>>

InitGaf == GafIdle /\ CacheIdle /\ BuildIdle /\ LaterIdle

NextGaf ==
    \/ \E f \in Files, g \in Files : AddImporter(f, g)
    \/ \E f \in Files : PickChanged(f)
    \/ \E md \in 0..MaxDepthBound : GafCall(md)
    \/ GafLoop
    \/ GafReturn

\* the call runs to completion: the while loop is never abandoned half-way
SpecGaf == InitGaf /\ [][NextGaf]_vars /\ WF_vars(GafLoop) /\ WF_vars(GafReturn)

\* ------------------------------------------------------------------------
\* Properties of getAffectedFiles
\* ------------------------------------------------------------------------

\* the importers of f: the files one importedBy hop from f
Importers(f) == Range(importedBy[f])

\* the files within k importedBy hops of some changed path
RECURSIVE ReachWithin(_)
ReachWithin(k) ==
    IF k = 0 THEN Range(changedFiles)
    ELSE LET r == ReachWithin(k - 1)
         IN r \cup {g \in Files : \E f \in r : g \in Importers(f)}

Unreachable == Cardinality(Files) + 1

\* the shortest importedBy distance of f from the changed paths
Dist(f) ==
    IF f \notin ReachWithin(Cardinality(Files)) THEN Unreachable
    ELSE CHOOSE k \in 0..Cardinality(Files) :
            /\ f \in ReachWithin(k)
            /\ \A j \in 0..(k - 1) : f \notin ReachWithin(j)

Records(f, d) == f \in DOMAIN affected /\ affected[f] = d

\* C1: the returned map gives every changed path depth 0 and every file
\* within maxDepth importedBy hops of a changed path its shortest distance.
C1_ShortestDepth ==
    gpc = "done" =>
        \A f \in Files :
            /\ f \in Range(changedFiles) => Records(f, 0)
            /\ Dist(f) <= maxDepth => Records(f, Dist(f))

\* two changed paths, one importing the other, and a third file that imports
\* the importer: one hop from it, two hops from the other changed path
C1_Witness ==
    /\ gpc = "done"
    /\ \E f, g \in Range(changedFiles), x \in Files \ Range(changedFiles) :
          /\ f /= g
          /\ g \in Importers(f)
          /\ x \in Importers(g) /\ x \notin Importers(f)
          /\ Records(x, 1)

Chain3 ==
    /\ importedBy = [f \in Files |-> CASE f = "a" -> <<"b">>
                                        [] f = "b" -> <<"c">>
                                        [] f = "c" -> <<"d">>
                                        [] OTHER -> <<>>]
    /\ changedFiles = <<"a">>
    /\ maxDepth = 2

\* C2: no file farther than maxDepth from every changed path is recorded, a
\* file at exactly maxDepth is; the chain a<-b<-c<-d with maxDepth 2 gives
\* a, b and c (c at depth 2) and not d.
C2_DepthBound ==
    gpc = "done" =>
        /\ \A f \in Files :
             /\ Dist(f) > maxDepth => f \notin DOMAIN affected
             /\ Dist(f) = maxDepth => f \in DOMAIN affected
        /\ Chain3 => Records("c", 2) /\ "d" \notin DOMAIN affected

C2_Witness == gpc = "done" /\ Chain3 /\ DOMAIN affected = {"a", "b", "c"}

MutualCycle ==
    /\ importedBy = [f \in Files |-> CASE f = "a" -> <<"b">>
                                        [] f = "b" -> <<"a">>
                                        [] OTHER -> <<>>]
    /\ changedFiles = <<"a">>

\* C3: every call returns, whatever cycles the graph has (a call that has
\* entered its while loop leaves it for good), and on the mutual cycle a<->b
\* with changed [a] it returns exactly {a: 0, b: 1}.
C3_Terminates ==
    /\ <>[](gpc /= "loop")
    /\ [](gpc = "done" /\ MutualCycle /\ maxDepth >= 1
            => affected = [f \in {"a", "b"} |-> IF f = "a" THEN 0 ELSE 1])

\* a call over a graph with a cycle among the (transitive) importers returned
C3_Witness ==
    /\ gpc = "done"
    /\ maxDepth >= 2
    /\ \E f, g \in DOMAIN affected :
          f /= g /\ g \in Importers(f) /\ f \in Importers(g)

\* ------------------------------------------------------------------------
\* Path strings
\* ------------------------------------------------------------------------

\* String.prototype.includes, startsWith, endsWith
Includes(s, p) == \E i \in 1..(Len(s) - Len(p) + 1) : SubSeq(s, i, i + Len(p) - 1) = p
StartsWith(s, p) == Len(p) <= Len(s) /\ SubSeq(s, 1, Len(p)) = p
EndsWith(s, p) == Len(p) <= Len(s) /\ SubSeq(s, Len(s) - Len(p) + 1, Len(s)) = p

UpperCase == "ABCDEFGHIJKLMNOPQRSTUVWXYZ"
LowerCase == "abcdefghijklmnopqrstuvwxyz"

\* String.prototype.toLowerCase, one character
LowerChar(c) ==
    IF \E i \in 1..Len(UpperCase) : SubSeq(UpperCase, i, i) = c
    THEN LET i == CHOOSE j \in 1..Len(UpperCase) : SubSeq(UpperCase, j, j) = c
         IN SubSeq(LowerCase, i, i)
    ELSE c

RECURSIVE ToLowerCase(_)
ToLowerCase(s) ==
    IF Len(s) = 0 THEN ""
    ELSE LowerChar(SubSeq(s, 1, 1)) \o ToLowerCase(SubSeq(s, 2, Len(s)))

\* the positions of the separators of a relative path
Slashes(s, seps) == {i \in 1..Len(s) : SubSeq(s, i, i) \in seps}

LastOf(S) == CHOOSE i \in S : \A j \in S : j <= i

\* path.dirname and path.basename (posix) of a relative path
PathDirname(s) ==
    IF Slashes(s, {"/"}) = {} THEN "."
    ELSE SubSeq(s, 1, LastOf(Slashes(s, {"/"})) - 1)

PathBasename(s) ==
    IF Slashes(s, {"/"}) = {} THEN s
    ELSE SubSeq(s, LastOf(Slashes(s, {"/"})) + 1, Len(s))

\* s.split(/[/\\]/): the pieces between separators, empty ones included
RECURSIVE SplitFrom(_, _, _)
SplitFrom(s, from, cuts) ==
    IF \A c \in cuts : c < from THEN <<SubSeq(s, from, Len(s))>>
    ELSE LET c == CHOOSE x \in cuts : x >= from /\ \A y \in cuts : y >= from => x <= y
         IN <<SubSeq(s, from, c - 1)>> \o SplitFrom(s, c + 1, cuts)

SplitPath(s) == SplitFrom(s, 1, Slashes(s, {"/", "\\"}))

\* ------------------------------------------------------------------------
\* Folder conventions (src/heuristics/folder-conventions.ts) and isTestFile
\* (src/heuristics/naming-conventions.ts)
\* ------------------------------------------------------------------------

HIGH_RISK_FOLDERS ==
    {"auth", "authentication", "security", "core", "database", "db", "config", "migrations"}

MEDIUM_RISK_FOLDERS ==
    {"services", "service", "controllers", "controller", "middleware", "middlewares",
     "api", "routes", "handlers"}

LOW_RISK_FOLDERS ==
    {"utils", "helpers", "lib", "common", "shared", "types", "interfaces", "constants"}

\* the suffixes of DEFAULT_TEST_PATTERNS
TestSuffixes ==
    {".spec.ts", ".spec.tsx", ".spec.js", ".spec.jsx",
     ".test.ts", ".test.tsx", ".test.js", ".test.jsx"}

\* naming-conventions.ts lines 29-66: isTestFile(filePath) with no config
IsTestFile(filePath) ==
    \/ \E suffix \in TestSuffixes : EndsWith(PathBasename(filePath), suffix)
    \/ Includes(filePath, "__tests__/")
    \/ Includes(filePath, "/test/")
    \/ Includes(filePath, "/tests/")

\* the folder f as a segment between separators
HasFolder(lowerPath, f) ==
    Includes(lowerPath, "/" \o f \o "/") \/ Includes(lowerPath, "\\" \o f \o "\\")

\* folder-conventions.ts lines 84-128: getFolderRiskLevel
GetFolderRiskLevel(filePath) ==
    LET lowerPath == ToLowerCase(filePath)
        folderName == PathBasename(PathDirname(lowerPath))
        In(folders) == \E f \in folders : HasFolder(lowerPath, f) \/ folderName = f
    IN IF In(HIGH_RISK_FOLDERS) THEN "high"
       ELSE IF In(MEDIUM_RISK_FOLDERS) THEN "medium"
       ELSE IF In(LOW_RISK_FOLDERS) THEN "low"
       ELSE "none"

\* folder-conventions.ts lines 59-72: getModuleName
GetModuleName(filePath) ==
    LET parts == SelectSeq(SplitPath(PathDirname(filePath)), LAMBDA p : p /= "")
        relevantParts == SelectSeq(parts, LAMBDA p : p \notin {"src", "lib", "app", "packages"})
    IN IF Len(relevantParts) > 0 THEN relevantParts[1]
       ELSE IF Len(parts) > 0 THEN parts[Len(parts)]
       ELSE "root"


\* ------------------------------------------------------------------------
\* Risk calculator (src/analyzers/risk-calculator.ts)
\* ------------------------------------------------------------------------

\* the changed files of one call
MaxChangedFiles == 7

\* the paths a diff may name, in the order the list is built in
RiskPaths ==
    <<"user.spec.ts", "tests/auth-helper.ts", "src/auth/security.ts",
      "src/database/schema.ts", "src/types/index.ts", "src/utils/helpers.ts",
      "src/API/Main.ts", "src/services/app.config.ts", "src/__tests__/login.ts">>

\* the lengths of impactedUnitTests and impactedApiTests
UnitTestCounts == {0, 9, 10, 14, 15, 40}
ApiTestCounts == {0, 4, 5, 6, 7}

\* lines 23-27
THRESHOLDS == [LOW |-> 3, MEDIUM |-> 7]

\* lines 32-43
WEIGHTS ==
    [highRiskFolder |-> 3, mediumRiskFolder |-> 1, authSecurityFile |-> 4,
     databaseFile |-> 3, configFile |-> 2, sharedUtility |-> 2, multipleModules |-> 2,
     manyFilesChanged |-> 1, manyTestsImpacted |-> 1, coreFile |-> 3]

\* a RiskSignal; file is the path its description names, if any
Signal(signal, weight, file) == [signal |-> signal, weight |-> weight, file |-> file]

\* signals.push(...); score += weight
Push(acc, signal, weight, file) ==
    [signals |-> Append(acc.signals, Signal(signal, weight, file)),
     score |-> acc.score + weight]

\* lines 96-105, 120-128, 143: the keyword lists
AuthPatterns ==
    {"auth", "security", "password", "token", "jwt", "session", "login", "permission"}
DbPatterns == {"database", "migration", "schema", "model", "entity", "repository", ".sql"}
ConfigPatterns == {"config", ".env", "settings", "constants"}

\* lines 107-108, 130-131, 145-146: a keyword anywhere in the lower-cased path
MatchesKeyword(path, patterns) == \E p \in patterns : Includes(ToLowerCase(path), p)

\* lines 158-165: a keyword as a folder of the path
MatchesUtil(path) ==
    \E p \in {"utils", "helpers", "lib", "shared", "common"} :
        HasFolder(ToLowerCase(path), p)

\* lines 177-185: a keyword as a folder of the path or at the start of the
\* file name
MatchesCore(path) ==
    LET lowerPath == ToLowerCase(path)
        pieces == SplitPath(lowerPath)
        fileName == pieces[Len(pieces)]
    IN \E p \in {"core", "kernel", "base", "main", "app"} :
          Includes(lowerPath, "/" \o p \o "/") \/ StartsWith(fileName, p)

\* the configurations handed to riskCalculator.analyze: the default, a
\* low-risk folder forced high, a high-risk folder forced low, and lists that
\* match no changed path
RiskConfigs ==
    {DefaultRiskConfig,
     [highRiskFiles |-> <<"src/types/**">>, lowRiskFiles |-> <<>>],
     [highRiskFiles |-> <<>>, lowRiskFiles |-> <<"**/auth/*.ts">>],
     [highRiskFiles |-> <<"src/payment/**">>, lowRiskFiles |-> <<"docs/*">>]}

\* config.ts lines 203-214: the regular expression a glob is turned into,
\* matched from position i of the path and position j of the glob: ** is
\* ".*", * is "[^/]*", any other character of the globs above is itself
RECURSIVE GlobMatch(_, _, _, _)
GlobMatch(path, i, glob, j) ==
    IF j > Len(glob) THEN i > Len(path)
    ELSE IF j < Len(glob) /\ SubSeq(glob, j, j + 1) = "**"
    THEN \E k \in i..(Len(path) + 1) : GlobMatch(path, k, glob, j + 2)
    ELSE IF SubSeq(glob, j, j) = "*"
    THEN \E k \in i..(Len(path) + 1) :
            /\ \A m \in i..(k - 1) : SubSeq(path, m, m) /= "/"
            /\ GlobMatch(path, k, glob, j + 1)
    ELSE /\ i <= Len(path)
         /\ SubSeq(path, i, i) = SubSeq(glob, j, j)
         /\ GlobMatch(path, i + 1, glob, j + 1)

\* config.ts lines 191-217: matchGlobPattern; a leading "**/" is an optional
\* "(?:.*/)?" in front of the rest
MatchGlobPattern(filePath, pattern) ==
    IF StartsWith(pattern, "**/")
    THEN \/ GlobMatch(filePath, 1, pattern, 4)
         \/ \E k \in Slashes(filePath, {"/"}) : GlobMatch(filePath, k + 1, pattern, 4)
    ELSE GlobMatch(filePath, 1, pattern, 1)

\* the globs of RiskConfigs matched against each path of RiskPaths, worked
\* out once for all calls
GlobFacts ==
    [p \in Range(RiskPaths) |->
        [g \in UNION {Range(c.highRiskFiles) \cup Range(c.lowRiskFiles) : c \in RiskConfigs} |->
            MatchGlobPattern(p, g)]]

\* config.ts lines 172-178: isHighRiskFile
IsHighRiskFile(filePath, config) ==
    \E i \in DOMAIN config.highRiskFiles : GlobFacts[filePath][config.highRiskFiles[i]]

\* config.ts lines 183-186: isLowRiskFile
IsLowRiskFile(filePath, config) ==
    \E i \in DOMAIN config.lowRiskFiles : GlobFacts[filePath][config.lowRiskFiles[i]]

\* what the checks of analyze find in each path of RiskPaths, worked out
\* once for all calls
PathFacts ==
    [p \in Range(RiskPaths) |->
        [isTestFile |-> IsTestFile(p),
         folderRisk |-> GetFolderRiskLevel(p),
         moduleName |-> GetModuleName(p),
         auth_security |-> MatchesKeyword(p, AuthPatterns),
         database |-> MatchesKeyword(p, DbPatterns),
         config |-> MatchesKeyword(p, ConfigPatterns),
         shared_utility |-> MatchesUtil(p),
         core_file |-> MatchesCore(p)]]

\* folder-conventions.ts lines 188-194: getAffectedModules
GetAffectedModules(paths) == {PathFacts[paths[i]].moduleName : i \in DOMAIN paths}

\* the source files a keyword check matches, by position
Hits(files, check) == {i \in DOMAIN files : PathFacts[files[i]][check]}

\* lines 76-92: the folder risk of one source file
FolderStep(path, acc) ==
    LET folderRisk == PathFacts[path].folderRisk
    IN IF folderRisk = "high"
       THEN Push(acc, "high_risk_folder", WEIGHTS.highRiskFolder, path)
       ELSE IF folderRisk = "medium"
       THEN Push(acc, "medium_risk_folder", WEIGHTS.mediumRiskFolder, path)
       ELSE acc

\* lines 75-93: the loop over the source files
RECURSIVE FolderRisk(_, _, _)
FolderRisk(files, i, acc) ==
    IF i > Len(files) THEN acc
    ELSE CHOOSE out \in
            {FolderRisk(files, i + 1, next) : next \in {FolderStep(files[i], acc)}} : TRUE

\* a keyword loop without its break: one signal for every matching file
RECURSIVE OncePerFile(_, _, _, _, _)
OncePerFile(acc, files, hits, signal, weight) ==
    IF hits = {} THEN acc
    ELSE LET i == CHOOSE x \in hits : \A y \in hits : x <= y
         IN OncePerFile(Push(acc, signal, weight, files[i]), files, hits \ {i},
                        signal, weight)

\* for (const file of sourceFiles) { if (match) { push; score += w; break } }
Once(acc, files, hits, signal, weight) ==
    IF hits = {} THEN acc
    ELSE Push(acc, signal, weight, files[CHOOSE x \in hits : \A y \in hits : x <= y])

\* a multiple_modules signal of the weight of one module
MultipleModulesFlat(acc, files) ==
    LET size == Cardinality(GetAffectedModules(files))
    IN IF size > 1
       THEN [signals |-> Append(acc.signals,
                                Signal("multiple_modules", WEIGHTS.multipleModules, "")),
             score |-> acc.score + WEIGHTS.multipleModules * (size - 1)]
       ELSE acc

\* lines 197-208
MultipleModules(acc, files) ==
    LET size == Cardinality(GetAffectedModules(files))
    IN IF size > 1
       THEN Push(acc, "multiple_modules", WEIGHTS.multipleModules * (size - 1), "")
       ELSE acc

Min2(a, b) == IF a <= b THEN a ELSE b

\* lines 211-219
ManyFiles(acc, files) ==
    IF Len(files) >= 5
    THEN Push(acc, "many_files", Min2(Len(files) - 4, 3), "")
    ELSE acc

\* thresholds that exclude their upper bounds
LevelStrict(score) ==
    IF score < THRESHOLDS.LOW THEN "LOW"
    ELSE IF score < THRESHOLDS.MEDIUM THEN "MEDIUM"
    ELSE "HIGH"

\* lines 222-229 and 279-286
Level(score) ==
    IF score <= THRESHOLDS.LOW THEN "LOW"
    ELSE IF score <= THRESHOLDS.MEDIUM THEN "MEDIUM"
    ELSE "HIGH"

\* lines 304-305: signals.sort((a, b) => b.weight - a.weight) sorts the
\* returned array itself: by weight, heaviest first, equal weights in their
\* order of arrival
RECURSIVE SortFrom(_, _)
SortFrom(signals, w) ==
    IF w < 0 THEN <<>>
    ELSE SelectSeq(signals, LAMBDA x : x.weight = w) \o SortFrom(signals, w - 1)

SortByWeight(signals) ==
    IF Len(signals) = 0 THEN signals
    ELSE SortFrom(signals,
                  CHOOSE w \in {signals[i].weight : i \in DOMAIN signals} :
                      \A i \in DOMAIN signals : signals[i].weight <= w)

\* the RiskAssessment returned (its summary text left out)
Assessment(fn, acc) ==
    [fn |-> fn, level |-> Level(acc.score), score |-> acc.score,
     signals |-> SortByWeight(acc.signals)]

\* lines 60-71
OnlyTests ==
    [fn |-> "analyze", level |-> "LOW", score |-> 0,
     signals |-> <<Signal("only_tests", 0, "")>>]

\* the caller's list of changed files grows by one path
AddChangedFile(k) ==
    /\ assessment.fn = "none"
    /\ Len(riskChanged) < MaxChangedFiles
    /\ \A i \in DOMAIN riskChanged : \E j \in 1..k : RiskPaths[j] = riskChanged[i]
    /\ riskChanged' = Append(riskChanged, RiskPaths[k])
    /\ UNCHANGED <<assessment, riskConfig>>
    /\ UNCHANGED <<gafVars, cacheVars, buildVars, notRisk>>

\* lines 51-240: riskCalculator.analyze(context); of the context it reads
\* changedFiles alone (line 55), context.config is never looked at
Analyze(config) ==
    /\ assessment.fn = "none"
    /\ riskConfig' = config
    /\ \E sourceFiles \in {SelectSeq(riskChanged, LAMBDA p : ~PathFacts[p].isTestFile)} :
          IF Len(sourceFiles) = 0
          THEN assessment' = OnlyTests
          ELSE \E a1 \in {FolderRisk(sourceFiles, 1, [signals |-> <<>>, score |-> 0])} :
               \E a2 \in {Once(a1, sourceFiles, Hits(sourceFiles, "auth_security"),
                               "auth_security", WEIGHTS.authSecurityFile)} :
               \E a3 \in {Once(a2, sourceFiles, Hits(sourceFiles, "database"),
                               "database", WEIGHTS.databaseFile)} :
               \E a4 \in {Once(a3, sourceFiles, Hits(sourceFiles, "config"),
                               "config", WEIGHTS.configFile)} :
               \E a5 \in {Once(a4, sourceFiles, Hits(sourceFiles, "shared_utility"),
                               "shared_utility", WEIGHTS.sharedUtility)} :
               \E a6 \in {Once(a5, sourceFiles, Hits(sourceFiles, "core_file"),
                               "core_file", WEIGHTS.coreFile)} :
               \E a7 \in {MultipleModules(a6, sourceFiles)} :
               \E a8 \in {ManyFiles(a7, sourceFiles)} :
                  assessment' = Assessment("analyze", a8)
    /\ UNCHANGED riskChanged
    /\ UNCHANGED <<gafVars, cacheVars, buildVars, notRisk>>

\* lines 246-294: calculateRiskWithImpact(changedFiles, impactedUnitTests,
\* impactedApiTests), given the lengths of the two lists
CalculateRiskWithImpact(unitTests, apiTests) ==
    /\ assessment.fn = "none"
    /\ LET a0 == [signals |-> <<>>, score |-> 0]
           a1 == IF unitTests >= 10
                 THEN Push(a0, "many_tests_impacted", Min2(unitTests \div 5, 3), "")
                 ELSE a0
           a2 == IF apiTests >= 5
                 THEN Push(a1, "many_api_tests_impacted", Min2(apiTests \div 2, 3), "")
                 ELSE a1
       IN assessment' = Assessment("calculateRiskWithImpact", a2)
    /\ UNCHANGED <<riskChanged, riskConfig>>
    /\ UNCHANGED <<gafVars, cacheVars, buildVars, notRisk>>

InitRisk == LaterIdle /\ GafIdle /\ CacheIdle /\ BuildIdle

NextRisk ==
    \/ \E k \in DOMAIN RiskPaths : AddChangedFile(k)
    \/ \E config \in RiskConfigs : Analyze(config)
    \/ \E u \in UnitTestCounts, a \in ApiTestCounts : CalculateRiskWithImpact(u, a)

SpecRisk == InitRisk /\ [][NextRisk]_vars

\* ------------------------------------------------------------------------
\* Properties of the risk calculator
\* ------------------------------------------------------------------------

\* the folder names that mark a test folder
TestFolders == {"__tests__", "test", "tests"}

\* the paths of RiskPaths that are test files: the name ends in a test
\* suffix, or a folder of the path is a test folder
TestFiles ==
    {p \in Range(RiskPaths) :
        \/ \E suffix \in TestSuffixes : EndsWith(PathBasename(p), suffix)
        \/ \E i \in 1..(Len(SplitPath(p)) - 1) : SplitPath(p)[i] \in TestFolders}

Analyzed == assessment.fn = "analyze"

\* C11: when every changed file is a test file, analyze returns LOW, score 0
\* and the single signal only_tests.
C11_OnlyTests ==
    (Analyzed /\ \A i \in DOMAIN riskChanged : riskChanged[i] \in TestFiles)
        => assessment = OnlyTests

RECURSIVE SumWeights(_, _)
SumWeights(signals, i) ==
    IF i > Len(signals) THEN 0 ELSE signals[i].weight + SumWeights(signals, i + 1)

\* C12: in every assessment returned by analyze or calculateRiskWithImpact,
\* score is the sum of the weights of the returned signals.
C12_ScoreIsSum ==
    assessment.fn /= "none" => assessment.score = SumWeights(assessment.signals, 1)

HasSignal(name) == \E i \in DOMAIN assessment.signals : assessment.signals[i].signal = name

\* an analyze over three or more modules and five or more source files
C12_Witness ==
    /\ Analyzed
    /\ HasSignal("many_files")
    /\ \E i \in DOMAIN assessment.signals :
          /\ assessment.signals[i].signal = "multiple_modules"
          /\ assessment.signals[i].weight >= 4
    /\ assessment.score = SumWeights(assessment.signals, 1)

\* C13: level is LOW exactly when score <= 3, MEDIUM exactly when score is 4
\* to 7, HIGH exactly when score >= 8; the changed files src/auth/security.ts
\* and src/database/schema.ts give HIGH.
C13_LevelThresholds ==
    assessment.fn /= "none" =>
        /\ assessment.level = "LOW" <=> assessment.score <= 3
        /\ assessment.level = "MEDIUM" <=> (4 <= assessment.score /\ assessment.score <= 7)
        /\ assessment.level = "HIGH" <=> assessment.score >= 8
        /\ (Analyzed /\ riskChanged = <<"src/auth/security.ts", "src/database/schema.ts">>)
              => assessment.level = "HIGH"

\* the two files analyzed, with the signals of both
C13_Witness ==
    /\ Analyzed
    /\ riskChanged = <<"src/auth/security.ts", "src/database/schema.ts">>
    /\ assessment.level = "HIGH"
    /\ assessment.score = 15

Count(name) ==
    Cardinality({i \in DOMAIN assessment.signals : assessment.signals[i].signal = name})

\* the changed files analyze does not filter out, by position
SourcePositions == {i \in DOMAIN riskChanged : ~PathFacts[riskChanged[i]].isTestFile}

InFolder(risk) == {i \in SourcePositions : PathFacts[riskChanged[i]].folderRisk = risk}

FolderTotal ==
    SumWeights(SelectSeq(assessment.signals,
                         LAMBDA x : x.signal \in {"high_risk_folder", "medium_risk_folder"}), 1)

FolderSignals(f) ==
    {i \in DOMAIN assessment.signals :
        /\ assessment.signals[i].file = f
        /\ assessment.signals[i].signal \in {"high_risk_folder", "medium_risk_folder"}}

\* C22: a changed source file that matches a glob of config.highRiskFiles is
\* reported as high risk by analyze, and one that matches a glob of
\* config.lowRiskFiles (and none of highRiskFiles) raises no folder signal,
\* whatever its folder
C22_ConfigOverrides ==
    Analyzed =>
        \A i \in DOMAIN riskChanged :
            LET f == riskChanged[i]
            IN f \notin TestFiles =>
                  /\ IsHighRiskFile(f, riskConfig) =>
                         \E k \in FolderSignals(f) :
                            assessment.signals[k].signal = "high_risk_folder"
                  /\ (IsLowRiskFile(f, riskConfig) /\ ~IsHighRiskFile(f, riskConfig)) =>
                         FolderSignals(f) = {}

\* the place of a signal in the order of the checks that raise it
TriggerRank ==
    [only_tests |-> 1, high_risk_folder |-> 1, medium_risk_folder |-> 1,
     auth_security |-> 2, database |-> 3, config |-> 4, shared_utility |-> 5,
     core_file |-> 6, multiple_modules |-> 7, many_files |-> 8,
     many_tests_impacted |-> 1, many_api_tests_impacted |-> 2]

\* the positions of a path in the changed files
PositionsOf(f) == {i \in DOMAIN riskChanged : riskChanged[i] = f}

\* C30: the signals analyze and calculateRiskWithImpact return are in the
\* order in which the checks raised them: folder risk file by file, then
\* auth, database, config, shared utility, core, multiple modules, many files
\* (many tests before many API tests); making the summary does not reorder
\* them
C30_SignalsInTriggerOrder ==
    assessment.fn /= "none" =>
        \A i, j \in DOMAIN assessment.signals :
            i < j =>
                LET a == assessment.signals[i]
                    b == assessment.signals[j]
                IN /\ TriggerRank[a.signal] <= TriggerRank[b.signal]
                   /\ {a.signal, b.signal} \subseteq {"high_risk_folder", "medium_risk_folder"} =>
                          \E m \in PositionsOf(a.file), n \in PositionsOf(b.file) : m <= n

\* ------------------------------------------------------------------------
\* Monorepo support (src/core/monorepo.ts)
\* ------------------------------------------------------------------------

\* workspace manifests, dependency entries and changed names given to one
\* behaviour, taken together
MaxMonoInput == 6

\* monorepo.rootPath
RootPath == "/repo"

\* the workspace directories a glob pattern may match, with the name their
\* package.json declares
Packages ==
    << [name |-> "@app/ui", dir |-> "packages/ui"],
       [name |-> "@app/ui-kit", dir |-> "packages/ui-kit"],
       [name |-> "@app/icons", dir |-> "packages/ui/icons"] >>

PackageNames == {Packages[k].name : k \in DOMAIN Packages}

\* names a manifest may depend on or a caller may pass: the workspace
\* packages and one package that is no workspace
DepNames == <<"@app/ui", "@app/ui-kit", "@app/icons", "lodash">>

\* the filePath arguments of getPackageForFile
FilePaths ==
    {"packages/ui/src/button.ts", "packages/ui-kit/src/card.ts",
     "packages/ui/icons/add.ts", "scripts/build.ts",
     "/repo/packages/ui/index.ts"}

\* path.resolve(root, p) for a normalised p: an absolute p is kept
Resolve(root, p) == IF StartsWith(p, "/") THEN p ELSE root \o "/" \o p

\* the number of dependency entries in the manifests
RECURSIVE DepCount(_, _)
DepCount(ms, i) == IF i > Len(ms) THEN 0 ELSE Len(ms[i].deps) + DepCount(ms, i + 1)

MonoInput == Len(manifests) + DepCount(manifests, 1) + Len(changedPackages)

\* lines 109-125: one workspace per matched directory whose package.json
\* has a name
FindWorkspaces(ms) ==
    [i \in DOMAIN ms |->
        [name |-> ms[i].name,
         path |-> Resolve(RootPath, ms[i].dir),
         relativePath |-> ms[i].dir,
         internalDependencies |-> <<>>,
         dependedBy |-> <<>>]]

\* lines 134-140: buildPackageMap; the Map holds the workspace object, here
\* its position in workspaces
RECURSIVE BuildPackageMap(_, _, _)
BuildPackageMap(workspaces, i, map) ==
    IF i > Len(workspaces) THEN map
    ELSE CHOOSE out \in {BuildPackageMap(workspaces, i + 1, next) :
                            next \in {MapSet(map, workspaces[i].name, i)}} : TRUE

\* lines 160-163: one dependency name of workspace i
AddInternalDependency(workspaces, packageMap, i, depName) ==
    IF depName \in DOMAIN packageMap
    THEN LET ws1 == [workspaces EXCEPT ![i].internalDependencies = Append(@, depName)]
         IN [ws1 EXCEPT ![packageMap[depName]].dependedBy = Append(@, workspaces[i].name)]
    ELSE workspaces

\* lines 145-166: resolveInternalDependencies, workspace i from its
\* dependency j on
RECURSIVE ResolveInternalDependencies(_, _, _, _, _)
ResolveInternalDependencies(ms, workspaces, packageMap, i, j) ==
    IF i > Len(ms) THEN workspaces
    ELSE IF j > Len(ms[i].deps)
    THEN ResolveInternalDependencies(ms, workspaces, packageMap, i + 1, 1)
    ELSE CHOOSE out \in {ResolveInternalDependencies(ms, next, packageMap, i, j + 1) :
                            next \in {AddInternalDependency(workspaces, packageMap, i,
                                                            ms[i].deps[j])}} : TRUE

\* lines 14-91: detectMonorepo
DetectInfo(ms, hasConfig) ==
    IF ~hasConfig THEN NoInfo
    ELSE LET found == FindWorkspaces(ms)
             map == BuildPackageMap(found, 1, EmptyMap)
         IN [isMonorepo |-> TRUE,
             workspaces |-> ResolveInternalDependencies(ms, found, map, 1, 1),
             packageMap |-> map]

\* lines 179-185: the first workspace from position i on whose path is a
\* string prefix of absolutePath; 0 stands for null
RECURSIVE FirstPrefix(_, _, _)
FirstPrefix(workspaces, absolutePath, i) ==
    IF i > Len(workspaces) THEN 0
    ELSE IF StartsWith(absolutePath, workspaces[i].path) THEN i
    ELSE FirstPrefix(workspaces, absolutePath, i + 1)

\* lines 171-186: getPackageForFile
PackageForFile(filePath, monorepo) ==
    IF ~monorepo.isMonorepo THEN 0
    ELSE FirstPrefix(monorepo.workspaces, Resolve(RootPath, filePath), 1)

\* lines 203-208 with the push left out
GapExpandNoPush(dependedBy, i, aff, q) ==
    [affected |-> aff \cup Range(dependedBy), queue |-> q]

\* lines 203-208: for (const depName of ws.dependedBy)
RECURSIVE GapExpand(_, _, _, _)
GapExpand(dependedBy, i, aff, q) ==
    IF i > Len(dependedBy) THEN [affected |-> aff, queue |-> q]
    ELSE IF dependedBy[i] \notin aff
    THEN GapExpand(dependedBy, i + 1, aff \cup {dependedBy[i]}, Append(q, dependedBy[i]))
    ELSE GapExpand(dependedBy, i + 1, aff, q)

\* a package.json with a name appears in a directory the patterns match
WritePackage(k) ==
    /\ mpc = "setup"
    /\ MonoInput < MaxMonoInput
    /\ \A i \in DOMAIN manifests : manifests[i].dir /= Packages[k].dir
    /\ manifests' = Append(manifests, [name |-> Packages[k].name,
                                       dir |-> Packages[k].dir, deps |-> <<>>])
    /\ UNCHANGED <<info, mpc, changedPackages, gapAffected, gapQueue, pkgForFile>>
    /\ UNCHANGED <<gafVars, cacheVars, buildVars, notMono>>

\* a manifest gains a key in dependencies or devDependencies
AddDependency(i, d) ==
    /\ mpc = "setup"
    /\ MonoInput < MaxMonoInput
    /\ i \in DOMAIN manifests
    /\ \A j \in DOMAIN manifests[i].deps :
          \E e \in 1..(d - 1) : DepNames[e] = manifests[i].deps[j]
    /\ manifests' = [manifests EXCEPT ![i].deps = Append(@, DepNames[d])]
    /\ UNCHANGED <<info, mpc, changedPackages, gapAffected, gapQueue, pkgForFile>>
    /\ UNCHANGED <<gafVars, cacheVars, buildVars, notMono>>

\* detectMonorepo(rootPath); hasConfig: the root declares workspaces
DetectMonorepo(hasConfig) ==
    /\ mpc = "setup"
    /\ info' = DetectInfo(manifests, hasConfig)
    /\ mpc' = "ready"
    /\ UNCHANGED <<manifests, changedPackages, gapAffected, gapQueue, pkgForFile>>
    /\ UNCHANGED <<gafVars, cacheVars, buildVars, notMono>>

\* getPackageForFile(filePath, info)
GetPackageForFile(filePath) ==
    /\ mpc = "ready"
    /\ changedPackages = <<>>
    /\ pkgForFile' = [filePath |-> filePath, ws |-> PackageForFile(filePath, info)]
    /\ mpc' = "file"
    /\ UNCHANGED <<manifests, info, changedPackages, gapAffected, gapQueue>>
    /\ UNCHANGED <<gafVars, cacheVars, buildVars, notMono>>

\* the caller lists one more changed package (names in the order of
\* DepNames, a name possibly twice)
PickChangedPackage(d) ==
    /\ mpc = "ready"
    /\ MonoInput < MaxMonoInput
    /\ \A j \in DOMAIN changedPackages :
          \E e \in 1..d : DepNames[e] = changedPackages[j]
    /\ changedPackages' = Append(changedPackages, DepNames[d])
    /\ UNCHANGED <<manifests, info, mpc, gapAffected, gapQueue, pkgForFile>>
    /\ UNCHANGED <<gafVars, cacheVars, buildVars, notMono>>

\* getAffectedPackages(changedPackages, info), lines 195-196
GapCall ==
    /\ mpc = "ready"
    /\ gapAffected' = Range(changedPackages)
    /\ gapQueue' = changedPackages
    /\ mpc' = "loop"
    /\ UNCHANGED <<manifests, info, changedPackages, pkgForFile>>
    /\ UNCHANGED <<gafVars, cacheVars, buildVars, notMono>>

\* lines 198-209: one iteration of the while loop
GapLoop ==
    /\ mpc = "loop"
    /\ gapQueue /= <<>>
    /\ LET pkgName == Head(gapQueue)
       IN IF pkgName \notin DOMAIN info.packageMap
          THEN /\ gapQueue' = Tail(gapQueue)
               /\ UNCHANGED gapAffected
          ELSE \E out \in {GapExpand(info.workspaces[info.packageMap[pkgName]].dependedBy,
                                     1, gapAffected, Tail(gapQueue))} :
                  /\ gapAffected' = out.affected
                  /\ gapQueue' = out.queue
    /\ UNCHANGED <<manifests, info, mpc, changedPackages, pkgForFile>>
    /\ UNCHANGED <<gafVars, cacheVars, buildVars, notMono>>

\* line 211: return affected
GapReturn ==
    /\ mpc = "loop"
    /\ gapQueue = <<>>
    /\ mpc' = "done"
    /\ UNCHANGED <<manifests, info, changedPackages, gapAffected, gapQueue, pkgForFile>>
    /\ UNCHANGED <<gafVars, cacheVars, buildVars, notMono>>

InitMonorepo == LaterIdle /\ GafIdle /\ CacheIdle /\ BuildIdle

NextMonorepo ==
    \/ \E k \in DOMAIN Packages : WritePackage(k)
    \/ \E i \in 1..Len(Packages), d \in DOMAIN DepNames : AddDependency(i, d)
    \/ \E hasConfig \in BOOLEAN : DetectMonorepo(hasConfig)
    \/ \E filePath \in FilePaths : GetPackageForFile(filePath)
    \/ \E d \in DOMAIN DepNames : PickChangedPackage(d)
    \/ GapCall
    \/ GapLoop
    \/ GapReturn

\* the loop of getAffectedPackages is not suspended between iterations
SpecMonorepo ==
    /\ InitMonorepo
    /\ [][NextMonorepo]_vars
    /\ WF_vars(GapLoop)
    /\ WF_vars(GapReturn)

\* ---- properties of getAffectedPackages ----

\* the packages one dependedBy edge away from a package of S
Dependents(S) ==
    UNION {Range(info.workspaces[i].dependedBy) :
              i \in {j \in DOMAIN info.workspaces : info.workspaces[j].name \in S}}

\* S with everything reachable from it over dependedBy edges
RECURSIVE DependedByClosure(_)
DependedByClosure(S) ==
    IF Dependents(S) \subseteq S THEN S ELSE DependedByClosure(S \cup Dependents(S))

\* C15: every getAffectedPackages call returns, and what it returns is the
\* changed names together with every package reachable from them over
\* dependedBy edges
C15_AffectedClosure ==
    /\ <>[](mpc /= "loop")
    /\ [](mpc = "done" => gapAffected = DependedByClosure(Range(changedPackages)))

\* a finished call on a graph with a dependency cycle, with a transitive
\* dependent and with a changed name that is no workspace
C15_Witness ==
    /\ mpc = "done"
    /\ "lodash" \in Range(changedPackages)
    /\ \E i, j \in DOMAIN info.workspaces :
          /\ i /= j
          /\ info.workspaces[i].name \in Range(info.workspaces[j].dependedBy)
          /\ info.workspaces[j].name \in Range(info.workspaces[i].dependedBy)
          /\ info.workspaces[j].name \in Range(changedPackages)
          /\ info.workspaces[i].name \notin Range(changedPackages)
          /\ info.workspaces[i].name \in gapAffected

\* ---- properties of getPackageForFile ----

\* the workspace directory is an ancestor of the file
Contains(ws, filePath) == StartsWith(Resolve(RootPath, filePath), ws.path \o "/")

\* C17: getPackageForFile returns null exactly when no registered workspace
\* directory contains the file, and otherwise the first registered workspace
\* whose directory contains it
C17_FirstContaining ==
    mpc = "file" =>
        LET ws == info.workspaces
            inside == {i \in DOMAIN ws : Contains(ws[i], pkgForFile.filePath)}
        IN IF inside = {} THEN pkgForFile.ws = 0
           ELSE /\ pkgForFile.ws \in inside
                /\ \A i \in inside : pkgForFile.ws <= i

\* ------------------------------------------------------------------------
\* resolvePackageImport with an exports map (unnamed/part_007, the later
\* revision of src/core/monorepo.ts)
\* ------------------------------------------------------------------------

\* files written under the workspace directory in one behaviour
MaxUiFiles == 4

\* the workspace @app/ui: its directory, relative to monorepo.rootPath
UiName == "@app/ui"
UiDir == "packages/ui"

\* the files the package may hold
UiFiles ==
    {"packages/ui/index.ts", "packages/ui/src/index.ts", "packages/ui/src/button.ts",
     "packages/ui/button.ts", "packages/ui/invalid.ts", "packages/ui/lib/button.ts"}

UiDirs == {"packages/ui", "packages/ui/src", "packages/ui/lib"}

\* the exports fields the manifest may declare: none, a string, and objects
\* with their keys in Object.keys order
ExportsFields ==
    { [kind |-> "none"],
      [kind |-> "string", value |-> "./index.ts"],
      [kind |-> "object", entries |-> << [key |-> ".", target |-> "./index.ts"],
                                         [key |-> "./button", target |-> "./src/button.ts"] >>],
      [kind |-> "object", entries |-> << [key |-> ".", target |-> "./src/index"],
                                         [key |-> "./*", target |-> "./src/*.ts"] >>],
      [kind |-> "object", entries |-> << [key |-> "./*", target |-> "./src/*.ts"],
                                         [key |-> "./button", target |-> "./lib/button.ts"] >>] }

\* the import specifiers resolved
ImportPaths == {"@app/ui", "@app/ui/button", "@app/ui/invalid", "@other/ui"}

\* the tree made of the files present and the directories that hold them
UiTree(files) ==
    [p \in UiFiles \cup UiDirs |->
        IF p \in files THEN FileNode(ContentPlain)
        ELSE IF p = UiDir \/ \E f \in files : StartsWith(f, p \o "/") THEN DirNode
        ELSE NoNode]

\* the text of s before the first "*", and after it
BeforeStar(s) ==
    IF Slashes(s, {"*"}) = {} THEN s
    ELSE SubSeq(s, 1, (CHOOSE i \in Slashes(s, {"*"}) : \A j \in Slashes(s, {"*"}) : i <= j) - 1)

AfterStar(s) ==
    SubSeq(s, (CHOOSE i \in Slashes(s, {"*"}) : \A j \in Slashes(s, {"*"}) : i <= j) + 1, Len(s))

\* target.replace("*", suffix): the first "*" only
ReplaceStar(target, suffix) ==
    IF Slashes(target, {"*"}) = {} THEN target
    ELSE BeforeStar(target) \o suffix \o AfterStar(target)

\* lines 368-374: getPackageNameFromImport
GetPackageNameFromImport(importPath) ==
    LET parts == SplitFrom(importPath, 1, Slashes(importPath, {"/"}))
    IN IF StartsWith(importPath, "@") /\ Len(parts) >= 2
       THEN parts[1] \o "/" \o parts[2]
       ELSE parts[1]

\* lines 233-238: the subpath of the import inside its package
Subpath(importPath, packageName) ==
    IF Len(importPath) > Len(packageName)
    THEN LET rawSubpath == SubSeq(importPath, Len(packageName) + 1, Len(importPath))
         IN IF StartsWith(rawSubpath, "/") THEN "." \o rawSubpath ELSE "./" \o rawSubpath
    ELSE "."

\* lines 314-324: the first wildcard key from position i on whose prefix
\* starts the subpath
RECURSIVE WildcardMatch(_, _, _)
WildcardMatch(entries, subpath, i) ==
    IF i > Len(entries) THEN Null
    ELSE IF Includes(entries[i].key, "*") /\ StartsWith(subpath, BeforeStar(entries[i].key))
    THEN ReplaceStar(entries[i].target,
                     SubSeq(subpath, Len(BeforeStar(entries[i].key)) + 1, Len(subpath)))
    ELSE WildcardMatch(entries, subpath, i + 1)

\* lines 301-328: resolveExports
ResolveExports(exports, subpath) ==
    IF exports.kind = "string" THEN (IF subpath = "." THEN exports.value ELSE Null)
    ELSE IF \E i \in DOMAIN exports.entries : exports.entries[i].key = subpath
    THEN exports.entries[CHOOSE i \in DOMAIN exports.entries :
                             exports.entries[i].key = subpath].target
    ELSE WildcardMatch(exports.entries, subpath, 1)

\* relative(rootPath, resolve(ws.path, p)) for p = "." or "./..." or a plain
\* relative path
ResolveUnder(wsPath, p) ==
    IF p = "." THEN wsPath
    ELSE IF StartsWith(p, "./") THEN wsPath \o "/" \o SubSeq(p, 3, Len(p))
    ELSE wsPath \o "/" \o p

\* lines 241-254: the exports branch
ViaExports(tree, wsPath, exports, subpath) ==
    IF exports.kind = "none" THEN Null
    ELSE LET resolved == ResolveExports(exports, subpath)
         IN IF resolved = Null THEN Null
            ELSE LET absPath == ResolveUnder(wsPath, resolved)
                 IN IF Exists(tree, absPath) THEN absPath
                    ELSE ResolveWithExtensions(tree, absPath)

\* lines 257-293: the legacy branch, for a manifest without main and module
Legacy(tree, wsPath, subpath) ==
    IF subpath = "." THEN FirstEntry(tree, wsPath, 1)
    ELSE LET relativeFile == SubSeq(subpath, 3, Len(subpath))
             resolved == ResolveWithExtensions(tree, wsPath \o "/" \o relativeFile)
         IN IF resolved /= Null THEN resolved
            ELSE ResolveWithExtensions(tree, wsPath \o "/src/" \o relativeFile)

\* lines 220-296: resolvePackageImport(importPath, monorepo), the package map
\* holding @app/ui
ResolvePackageImportPath(tree, importPath, exports) ==
    LET packageName == GetPackageNameFromImport(importPath)
    IN IF packageName /= UiName THEN Null
       ELSE LET subpath == Subpath(importPath, packageName)
                viaExports == ViaExports(tree, UiDir, exports, subpath)
            IN IF viaExports /= Null THEN viaExports
               ELSE Legacy(tree, UiDir, subpath)

\* the manifest of @app/ui is written with an exports field
WriteManifest(exports) ==
    /\ resolution = NoResolution
    /\ graphEdge = NoResolution
    /\ uiManifest = [kind |-> "none"]
    /\ exports /= [kind |-> "none"]
    /\ uiManifest' = exports
    /\ UNCHANGED <<uiFiles, resolution, graphEdge>>
    /\ UNCHANGED <<gafVars, cacheVars, buildVars, notExports>>

\* a source file is written under packages/ui
WriteUiFile(f) ==
    /\ resolution = NoResolution
    /\ graphEdge = NoResolution
    /\ f \notin uiFiles
    /\ Cardinality(uiFiles) < MaxUiFiles
    /\ uiFiles' = uiFiles \cup {f}
    /\ UNCHANGED <<uiManifest, resolution, graphEdge>>
    /\ UNCHANGED <<gafVars, cacheVars, buildVars, notExports>>

\* resolvePackageImport(importPath, monorepo)
ResolveImport(importPath) ==
    /\ resolution = NoResolution
    /\ graphEdge = NoResolution
    /\ resolution' = [importPath |-> importPath,
                      result |-> ResolvePackageImportPath(UiTree(uiFiles), importPath,
                                                          uiManifest)]
    /\ UNCHANGED <<uiManifest, uiFiles, graphEdge>>
    /\ UNCHANGED <<gafVars, cacheVars, buildVars, notExports>>

\* dependency-graph.ts lines 245-269: resolveImportPathWithMonorepo for a
\* bare specifier, the package map holding @app/ui: resolvePackageImport is
\* handed the package name (line 259), and resolveImportPath (lines 206-211)
\* gives null for a bare specifier
ResolveEdgeWithMonorepo(tree, importPath, exports) ==
    LET packageName == GetPackageNameFromImport(importPath)
        resolved == IF packageName = UiName
                    THEN ResolvePackageImportPath(tree, packageName, exports)
                    ELSE Null
    IN IF resolved /= Null THEN resolved ELSE Null

\* resolveImportPathWithMonorepo(importPath, fromDir, rootPath, monorepo)
ResolveEdge(importPath) ==
    /\ resolution = NoResolution
    /\ graphEdge = NoResolution
    /\ graphEdge' = [importPath |-> importPath,
                     result |-> ResolveEdgeWithMonorepo(UiTree(uiFiles), importPath,
                                                        uiManifest)]
    /\ UNCHANGED <<uiManifest, uiFiles, resolution>>
    /\ UNCHANGED <<gafVars, cacheVars, buildVars, notExports>>

InitExports == LaterIdle /\ GafIdle /\ CacheIdle /\ BuildIdle

NextExports ==
    \/ \E exports \in ExportsFields : WriteManifest(exports)
    \/ \E f \in UiFiles : WriteUiFile(f)
    \/ \E importPath \in ImportPaths : ResolveImport(importPath)
    \/ \E importPath \in ImportPaths : ResolveEdge(importPath)

SpecExports == InitExports /\ [][NextExports]_vars

\* ---- properties of resolvePackageImport ----

\* the target the exports map gives a subpath: that of the key equal to the
\* subpath, else that of a wildcard key with the captured text put in
ExactTargets(entries, subpath) ==
    {entries[i].target : i \in {j \in DOMAIN entries : entries[j].key = subpath}}

WildcardTargets(entries, subpath) ==
    {ReplaceStar(entries[i].target,
                 SubSeq(subpath, Len(BeforeStar(entries[i].key)) + 1, Len(subpath))) :
        i \in {j \in DOMAIN entries :
                  /\ Includes(entries[j].key, "*")
                  /\ StartsWith(subpath, BeforeStar(entries[j].key))}}

MappedTargets(entries, subpath) ==
    IF ExactTargets(entries, subpath) /= {} THEN ExactTargets(entries, subpath)
    ELSE WildcardTargets(entries, subpath)

\* the paths that stand for a mapped target: the bare path, then the source
\* extensions and the directory index
TargetPaths(target) == {ResolveUnder(UiDir, target) \o Extensions[e] : e \in DOMAIN Extensions}

\* the example of the specification
ExampleExports ==
    [kind |-> "object", entries |-> << [key |-> ".", target |-> "./index.ts"],
                                       [key |-> "./button", target |-> "./src/button.ts"] >>]

\* C16: with an exports map, resolvePackageImport returns the path of the
\* target mapped to the subpath (exact key first, a wildcard key otherwise)
\* and only when it is on disk, null otherwise; in the example @app/ui gives
\* the entry file, @app/ui/button the button file and @app/ui/invalid null
C16_ExportsResolution ==
    (resolution /= NoResolution /\ uiManifest.kind = "object"
       /\ GetPackageNameFromImport(resolution.importPath) = UiName) =>
        LET subpath == Subpath(resolution.importPath, UiName)
            mapped == MappedTargets(uiManifest.entries, subpath)
        IN /\ resolution.result /= Null =>
                /\ \E t \in mapped : resolution.result \in TargetPaths(t)
                /\ Exists(UiTree(uiFiles), resolution.result)
           /\ \A t \in mapped :
                ResolveUnder(UiDir, t) \in uiFiles =>
                    resolution.result = ResolveUnder(UiDir, t)
           /\ uiManifest = ExampleExports =>
                /\ (resolution.importPath = "@app/ui" /\ "packages/ui/index.ts" \in uiFiles)
                      => resolution.result = "packages/ui/index.ts"
                /\ (resolution.importPath = "@app/ui/button"
                      /\ "packages/ui/src/button.ts" \in uiFiles)
                      => resolution.result = "packages/ui/src/button.ts"
                /\ resolution.importPath = "@app/ui/invalid" => resolution.result = Null

\* C24: for a specifier whose package name is a workspace, the edge the
\* graph builder records is the file resolvePackageImport yields for the
\* full specifier: the file of the subpath for @app/ui/button, the package
\* entry file for @app/ui
C24_EdgeOfFullSpecifier ==
    (graphEdge /= NoResolution /\ GetPackageNameFromImport(graphEdge.importPath) = UiName) =>
        graphEdge.result =
            ResolvePackageImportPath(UiTree(uiFiles), graphEdge.importPath, uiManifest)

\* the targets a declared exports field maps a subpath to
DeclaredTargets(subpath) ==
    IF uiManifest.kind = "string" THEN (IF subpath = "." THEN {uiManifest.value} ELSE {})
    ELSE MappedTargets(uiManifest.entries, subpath)

\* C25: with an exports field declared the result is decided by it alone: a
\* subpath it maps to no file on disk resolves to null, whatever entry files
\* or same-named files the package holds
C25_ExportsAlone ==
    (resolution /= NoResolution /\ uiManifest.kind /= "none"
       /\ GetPackageNameFromImport(resolution.importPath) = UiName) =>
        LET mapped == DeclaredTargets(Subpath(resolution.importPath, UiName))
        IN (\A t \in mapped : TargetPaths(t) \cap uiFiles = {}) => resolution.result = Null

\* ------------------------------------------------------------------------
\* addImpact (src/heuristics/naming-conventions.ts lines 333-352 and
\* unnamed/part_011 lines 19-41)
\* ------------------------------------------------------------------------

\* addImpact calls in one behaviour
MaxAdds == 3

\* a reason without relatedFile
Undefined == "undefined"

\* ImpactReason
Reason(type, description, relatedFile) ==
    [type |-> type, description |-> description, relatedFile |-> relatedFile]

\* the files and reasons passed to addImpact
ImpactFiles == {"a.spec.ts", "b.spec.ts"}

ImpactReasons ==
    {Reason("imports_changed", "Directly imports changed file", "source.ts"),
     Reason("imports_changed", "Transitively imports changed file (depth: 2)", "source.ts"),
     Reason("imports_changed", "Directly imports changed file", Undefined),
     Reason("naming_convention", "Directly imports changed file", "source.ts")}

\* a duplicate test that looks at the last reason only
IsDuplicateLast(reasons, reason) ==
    /\ reasons /= <<>>
    /\ reasons[Len(reasons)].type = reason.type
    /\ reasons[Len(reasons)].relatedFile = reason.relatedFile

\* naming-conventions.ts lines 345-347: isDuplicate of the analyzer's addImpact
IsDuplicate(reasons, reason) ==
    \E i \in DOMAIN reasons :
        /\ reasons[i].type = reason.type
        /\ reasons[i].relatedFile = reason.relatedFile

\* unnamed/part_011 lines 31-36: isDuplicate of the shared addImpact
IsDuplicateShared(reasons, reason) ==
    \E i \in DOMAIN reasons :
        /\ reasons[i].type = reason.type
        /\ reasons[i].description = reason.description
        /\ reasons[i].relatedFile = reason.relatedFile

\* map.get(file) after the map.set(file, []) of a missing key
ReasonsOf(map, file) == IF file \in DOMAIN map THEN map[file] ELSE <<>>

\* naming-conventions.ts lines 333-352: addImpact(map, testFile, reason)
AddImpact(map, testFile, reason) ==
    IF IsDuplicate(ReasonsOf(map, testFile), reason)
    THEN MapSet(map, testFile, ReasonsOf(map, testFile))
    ELSE MapSet(map, testFile, Append(ReasonsOf(map, testFile), reason))

\* unnamed/part_011 lines 19-41: addImpact(map, file, reason)
AddImpactShared(map, file, reason) ==
    IF IsDuplicateShared(ReasonsOf(map, file), reason)
    THEN MapSet(map, file, ReasonsOf(map, file))
    ELSE MapSet(map, file, Append(ReasonsOf(map, file), reason))

\* a call of the analyzer's addImpact
CallAddImpact(testFile, reason) ==
    /\ ~utRun.called
    /\ adds < MaxAdds
    /\ impactedTests' = AddImpact(impactedTests, testFile, reason)
    /\ lastAdd' = [variant |-> "analyzer", file |-> testFile, reason |-> reason,
                   before |-> ReasonsOf(impactedTests, testFile)]
    /\ adds' = adds + 1
    /\ UNCHANGED <<sharedImpacts, utRun>>
    /\ UNCHANGED <<gafVars, cacheVars, buildVars, notImpact>>

\* a call of the shared addImpact
CallAddImpactShared(file, reason) ==
    /\ ~utRun.called
    /\ adds < MaxAdds
    /\ sharedImpacts' = AddImpactShared(sharedImpacts, file, reason)
    /\ lastAdd' = [variant |-> "shared", file |-> file, reason |-> reason,
                   before |-> ReasonsOf(sharedImpacts, file)]
    /\ adds' = adds + 1
    /\ UNCHANGED <<impactedTests, utRun>>
    /\ UNCHANGED <<gafVars, cacheVars, buildVars, notImpact>>

\* ---- properties of addImpact ----

\* no two reasons of the list agree on the fields named
NoTwoAlike(reasons, withDescription) ==
    \A i, j \in DOMAIN reasons :
        (/\ i < j
         /\ reasons[i].type = reasons[j].type
         /\ reasons[i].relatedFile = reasons[j].relatedFile)
        => (withDescription /\ reasons[i].description /= reasons[j].description)

\* the list the last call found holds a reason like the one passed
WasDuplicate ==
    \E i \in DOMAIN lastAdd.before :
        /\ lastAdd.before[i].type = lastAdd.reason.type
        /\ lastAdd.before[i].relatedFile = lastAdd.reason.relatedFile
        /\ lastAdd.variant = "shared"
              => lastAdd.before[i].description = lastAdd.reason.description

\* the reason list of the file of the last call
AfterLastAdd ==
    IF lastAdd.variant = "analyzer" THEN impactedTests[lastAdd.file]
    ELSE sharedImpacts[lastAdd.file]

\* C18: after any addImpact calls no file of the analyzer's map has two
\* reasons with the same (type, relatedFile) and no file of the shared map
\* two with the same (type, description, relatedFile); a call passing a
\* duplicate leaves the file's list as it was, any other call appends
C18_NoDuplicateReasons ==
    /\ \A f \in DOMAIN impactedTests : NoTwoAlike(impactedTests[f], FALSE)
    /\ \A f \in DOMAIN sharedImpacts : NoTwoAlike(sharedImpacts[f], TRUE)
    /\ lastAdd.variant /= "none" =>
          AfterLastAdd = IF WasDuplicate THEN lastAdd.before
                         ELSE Append(lastAdd.before, lastAdd.reason)

\* the analyzer's addImpact was passed a reason whose type and relatedFile,
\* but not whose description, are those of the second of two reasons held
C18_Witness ==
    /\ lastAdd.variant = "analyzer"
    /\ WasDuplicate
    /\ Len(lastAdd.before) = 2
    /\ lastAdd.before[2].type = lastAdd.reason.type
    /\ lastAdd.before[2].description /= lastAdd.reason.description

\* ------------------------------------------------------------------------
\* unitTestAnalyzer.analyze (src/heuristics/naming-conventions.ts lines
\* 222-393)
\* ------------------------------------------------------------------------

\* paths in context.changedFiles
MaxUtChanged == 2

\* the paths of the projects analysed, in the order allFiles lists them
UtFileList ==
    <<"src/user.ts", "src/user.spec.ts", "src/__tests__/user.test.ts",
      "src/api.spec.ts", "src/util.ts", "src/spec/helper.ts">>

UtFiles == Range(UtFileList)

\* the files a project holds: its two plain source files and any of the
\* others
UtProjects == {S \in SUBSET UtFiles : {"src/user.ts", "src/util.ts"} \subseteq S}

\* a Map<string, Set<string>> as a function to the elements in insertion order
NoEdges == [f \in {} |-> <<>>]

\* the dependency graphs: imports and its mirror importedBy
UtGraphs ==
    << [imports |-> NoEdges, importedBy |-> NoEdges],
       [imports |-> [f \in {"src/user.spec.ts", "src/api.spec.ts", "src/user.ts"} |->
                        IF f = "src/user.ts" THEN <<"src/util.ts">> ELSE <<"src/user.ts">>],
        importedBy |-> [f \in {"src/user.ts", "src/util.ts"} |->
                        IF f = "src/util.ts" THEN <<"src/user.ts">>
                        ELSE <<"src/user.spec.ts", "src/api.spec.ts">>]],
       [imports |-> [f \in {"src/__tests__/user.test.ts", "src/spec/helper.ts"} |->
                        IF f = "src/spec/helper.ts" THEN <<"src/__tests__/user.test.ts">>
                        ELSE <<"src/spec/helper.ts", "src/user.ts">>],
        importedBy |-> [f \in {"src/__tests__/user.test.ts", "src/spec/helper.ts",
                               "src/user.ts"} |->
                        IF f = "src/__tests__/user.test.ts" THEN <<"src/spec/helper.ts">>
                        ELSE <<"src/__tests__/user.test.ts">>]] >>

\* naming-conventions.ts lines 13-24: DEFAULT_TEST_PATTERNS
DEFAULT_TEST_PATTERNS ==
    << [suffix |-> ".spec.ts", sourceSuffix |-> ".ts"],
       [suffix |-> ".spec.tsx", sourceSuffix |-> ".tsx"],
       [suffix |-> ".spec.js", sourceSuffix |-> ".js"],
       [suffix |-> ".spec.jsx", sourceSuffix |-> ".jsx"],
       [suffix |-> ".test.ts", sourceSuffix |-> ".ts"],
       [suffix |-> ".test.tsx", sourceSuffix |-> ".tsx"],
       [suffix |-> ".test.js", sourceSuffix |-> ".js"],
       [suffix |-> ".test.jsx", sourceSuffix |-> ".jsx"] >>

\* folder-conventions.ts line 54
TEST_FOLDER_PATTERNS == {"__tests__", "test", "tests", "spec", "specs"}

\* folder-conventions.ts lines 133-138: isInTestFolder
IsInTestFolder(filePath) ==
    \E p \in TEST_FOLDER_PATTERNS : HasFolder(ToLowerCase(filePath), p)

\* lines 389-393: getDirname
GetDirname(path) ==
    IF Slashes(path, {"/", "\\"}) = {} THEN ""
    ELSE SubSeq(path, 1, LastOf(Slashes(path, {"/", "\\"})) - 1)

\* path.join(dir, rest) of a normalised dir and a relative rest
JoinPath(dir, rest) == IF dir = "." THEN rest ELSE dir \o "/" \o rest

\* \w of a regular expression
WordChars == "abcdefghijklmnopqrstuvwxyzABCDEFGHIJKLMNOPQRSTUVWXYZ0123456789_"

IsWordAt(s, i) == i >= 1 /\ i <= Len(s) /\ Includes(WordChars, SubSeq(s, i, i))

\* where /\bsrc\b/ matches in s
SrcWords(s) ==
    {i \in 1..(Len(s) - 2) :
        SubSeq(s, i, i + 2) = "src" /\ ~IsWordAt(s, i - 1) /\ ~IsWordAt(s, i + 3)}

\* line 115: dir.replace(/\bsrc\b/, by)
ReplaceSrc(dir, by) ==
    IF SrcWords(dir) = {} THEN dir
    ELSE LET i == CHOOSE x \in SrcWords(dir) : \A y \in SrcWords(dir) : x <= y
         IN SubSeq(dir, 1, i - 1) \o by \o SubSeq(dir, i + 3, Len(dir))

\* lines 98-121: the candidates one pattern gives
PatternCandidates(dir, name, pattern) ==
    IF ~EndsWith(name, pattern.sourceSuffix) THEN {}
    ELSE LET testName == SubSeq(name, 1, Len(name) - Len(pattern.sourceSuffix))
                             \o pattern.suffix
         IN {JoinPath(dir, testName), JoinPath(dir, "__tests__/" \o testName),
             JoinPath(dir, "test/" \o testName), JoinPath(dir, "tests/" \o testName)}
            \cup (IF Includes(dir, "src/") \/ Includes(dir, "src\\")
                  THEN {JoinPath(ReplaceSrc(dir, "tests"), testName),
                        JoinPath(ReplaceSrc(dir, "test"), testName)}
                  ELSE {})

\* lines 84-124: getTestFilePatterns, as the set matchTestFiles looks into
GetTestFilePatterns(sourceFile) ==
    IF IsTestFile(sourceFile) THEN {}
    ELSE UNION {PatternCandidates(PathDirname(sourceFile), PathBasename(sourceFile),
                                  DEFAULT_TEST_PATTERNS[k]) : k \in DOMAIN DEFAULT_TEST_PATTERNS}

\* s without the first of the endings it ends with
StripEnding(s, endings) ==
    IF \E e \in endings : EndsWith(s, e)
    THEN LET e == CHOOSE x \in endings : EndsWith(s, x)
         IN SubSeq(s, 1, Len(s) - Len(e))
    ELSE s

\* line 181: basename(sourceFile).replace(/\.(ts|tsx|js|jsx)$/, "")
SourceBaseName(file) == StripEnding(PathBasename(file), {".ts", ".tsx", ".js", ".jsx"})

\* lines 189-192: basename(file).replace(/\.(spec|test)\.(ts|tsx|js|jsx)$/, "")
TestBaseName(file) == StripEnding(PathBasename(file), TestSuffixes)

\* what the analyzer's checks find in each path, worked out once for all
\* calls
UtFacts ==
    [p \in UtFiles |->
        [isTestFile |-> IsTestFile(p),
         isInTestFolder |-> IsInTestFolder(p),
         dirname |-> GetDirname(p),
         lower |-> ToLowerCase(p),
         patterns |-> {ToLowerCase(c) : c \in GetTestFilePatterns(p)},
         sourceBaseName |-> SourceBaseName(p),
         testBaseName |-> TestBaseName(p)]]

\* lines 159-202: matchTestFiles(sourceFile, allFiles)
MatchTestFiles(sourceFile, allFiles) ==
    LET strict == SelectSeq(allFiles,
                            LAMBDA f : UtFacts[f].lower \in UtFacts[sourceFile].patterns)
        fuzzy == SelectSeq(allFiles,
                           LAMBDA f : /\ UtFacts[f].isTestFile
                                      /\ UtFacts[f].testBaseName
                                            = UtFacts[sourceFile].sourceBaseName
                                      /\ f \notin Range(strict))
    IN strict \o fuzzy

\* position of a file in the affected Map, 0 if it has no entry
IndexOf(list, file) ==
    IF \E i \in DOMAIN list : list[i].file = file
    THEN CHOOSE i \in DOMAIN list : list[i].file = file
    ELSE 0

\* Map.set on a Map kept as its entries in insertion order
SetDepth(aff, file, depth) ==
    IF IndexOf(aff, file) = 0 THEN Append(aff, [file |-> file, depth |-> depth])
    ELSE [aff EXCEPT ![IndexOf(aff, file)].depth = depth]

\* dependency-graph.ts lines 366-371: one importer
VisitImporter(st, importer, depth) ==
    IF IndexOf(st.affected, importer) = 0
       \/ st.affected[IndexOf(st.affected, importer)].depth > depth + 1
    THEN [affected |-> SetDepth(st.affected, importer, depth + 1),
          queue |-> Append(st.queue, [file |-> importer, depth |-> depth + 1])]
    ELSE st

RECURSIVE VisitImporters(_, _, _, _)
VisitImporters(st, importers, i, depth) ==
    IF i > Len(importers) THEN st
    ELSE CHOOSE out \in {VisitImporters(next, importers, i + 1, depth) :
                            next \in {VisitImporter(st, importers[i], depth)}} : TRUE

\* dependency-graph.ts line 347: the default maxDepth
DefaultMaxDepth == 10

\* dependency-graph.ts lines 359-373: the while loop
RECURSIVE Bfs(_, _)
Bfs(graph, st) ==
    IF st.queue = <<>> THEN st.affected
    ELSE LET head == Head(st.queue)
             rest == [affected |-> st.affected, queue |-> Tail(st.queue)]
         IN CHOOSE out \in {Bfs(graph, next) :
                next \in {IF head.depth >= DefaultMaxDepth
                             \/ head.file \notin DOMAIN graph.importedBy
                          THEN rest
                          ELSE VisitImporters(rest, graph.importedBy[head.file], 1,
                                              head.depth)}} : TRUE

\* dependency-graph.ts lines 353-356: the changed files at depth 0
RECURSIVE Seed(_, _, _)
Seed(changed, i, st) ==
    IF i > Len(changed) THEN st
    ELSE CHOOSE out \in {Seed(changed, i + 1, next) :
            next \in {[affected |-> SetDepth(st.affected, changed[i], 0),
                       queue |-> Append(st.queue, [file |-> changed[i], depth |-> 0])]}} : TRUE

\* dependency-graph.ts lines 344-376: getAffectedFiles(changedFiles, graph),
\* the Map as its entries in insertion order
GetAffectedFiles(changed, graph) ==
    Bfs(graph, Seed(changed, 1, [affected |-> <<>>, queue |-> <<>>]))

\* the first element of a list that is in a set; Null if none
FirstIn(list, S) ==
    IF \E i \in DOMAIN list : list[i] \in S
    THEN list[CHOOSE i \in DOMAIN list :
                  list[i] \in S /\ \A j \in 1..(i - 1) : list[j] \notin S]
    ELSE Null

\* the imports of the imports, in iteration order
RECURSIVE SubImports(_, _, _)
SubImports(graph, imports, i) ==
    IF i > Len(imports) THEN <<>>
    ELSE (IF imports[i] \in DOMAIN graph.imports THEN graph.imports[imports[i]] ELSE <<>>)
         \o SubImports(graph, imports, i + 1)

\* lines 357-384: findClosestChangedDependency; Null stands for null
FindClosestChangedDependency(file, changedPaths, graph) ==
    IF file \notin DOMAIN graph.imports THEN Null
    ELSE LET imports == graph.imports[file]
         IN IF FirstIn(imports, Range(changedPaths)) /= Null
            THEN FirstIn(imports, Range(changedPaths))
            ELSE IF FirstIn(SubImports(graph, imports, 1), Range(changedPaths)) /= Null
            THEN FirstIn(SubImports(graph, imports, 1), Range(changedPaths))
            ELSE IF changedPaths /= <<>> THEN changedPaths[1] ELSE Null

\* the Map impactedTests: its reason lists, and its keys in insertion order
NoImpacts == [map |-> EmptyMap, order |-> <<>>]

\* addImpact on that Map
Impact(st, testFile, reason) ==
    [map |-> AddImpact(st.map, testFile, reason),
     order |-> IF testFile \in DOMAIN st.map THEN st.order ELSE Append(st.order, testFile)]

\* addImpact for each element of a list, reasonOf giving the reason
RECURSIVE ImpactAll(_, _, _, _)
ImpactAll(st, files, i, reasonOf) ==
    IF i > Len(files) THEN st
    ELSE CHOOSE out \in {ImpactAll(next, files, i + 1, reasonOf) :
                            next \in {Impact(st, files[i], reasonOf[i])}} : TRUE

\* lines 232-239: direct test file changes
DirectChanges(st, changed) ==
    LET tests == SelectSeq(changed, LAMBDA f : UtFacts[f].isTestFile \/ UtFacts[f].isInTestFolder)
    IN ImpactAll(st, tests, 1,
                 [i \in DOMAIN tests |->
                     Reason("direct_change", "Test file was directly modified", Undefined)])

\* lines 242-253: naming convention matching, changed file i onwards
RECURSIVE NamingMatches(_, _, _, _)
NamingMatches(st, changed, i, allFiles) ==
    IF i > Len(changed) THEN st
    ELSE IF UtFacts[changed[i]].isTestFile THEN NamingMatches(st, changed, i + 1, allFiles)
    ELSE CHOOSE out \in {NamingMatches(next, changed, i + 1, allFiles) :
            next \in {LET matched == MatchTestFiles(changed[i], allFiles)
                      IN ImpactAll(st, matched, 1,
                            [k \in DOMAIN matched |->
                                Reason("naming_convention",
                                       "Test matches source file naming pattern",
                                       changed[i])])}} : TRUE

\* lines 268-271: the description of an imports_changed reason
ImportDescription(depth) ==
    IF depth = 1 THEN "Directly imports changed file"
    ELSE "Transitively imports changed file (depth: " \o ToString(depth) \o ")"

\* lines 256-275: import graph traversal
ImportTraversal(st, changed, graph) ==
    LET hits == SelectSeq(GetAffectedFiles(changed, graph),
                          LAMBDA e : UtFacts[e.file].isTestFile
                                     \/ UtFacts[e.file].isInTestFolder)
    IN ImpactAll(st, [i \in DOMAIN hits |-> hits[i].file], 1,
                 [i \in DOMAIN hits |->
                     LET changedDep == FindClosestChangedDependency(hits[i].file, changed, graph)
                     IN Reason("imports_changed", ImportDescription(hits[i].depth),
                               IF changedDep /= Null THEN changedDep ELSE Undefined)])

\* lines 296-314: the co-located tests of one changed source file
RECURSIVE CoLocatedOf(_, _, _, _)
CoLocatedOf(st, sourceFile, allFiles, k) ==
    IF k > Len(allFiles) THEN st
    ELSE LET testFile == allFiles[k]
             sourceDir == UtFacts[sourceFile].dirname
         IN IF /\ UtFacts[testFile].isTestFile
               /\ testFile \notin DOMAIN st.map
               /\ UtFacts[testFile].dirname \in {sourceDir \o "/__tests__",
                                                 sourceDir \o "/test",
                                                 sourceDir \o "/tests"}
            THEN CHOOSE out \in {CoLocatedOf(next, sourceFile, allFiles, k + 1) :
                    next \in {Impact(st, testFile,
                                     Reason("folder_convention",
                                            "Co-located in test subfolder of changed module",
                                            sourceFile))}} : TRUE
            ELSE CoLocatedOf(st, sourceFile, allFiles, k + 1)

\* lines 290-315: co-located tests, changed file i onwards
RECURSIVE CoLocated(_, _, _, _)
CoLocated(st, changed, i, allFiles) ==
    IF i > Len(changed) THEN st
    ELSE IF UtFacts[changed[i]].isTestFile THEN CoLocated(st, changed, i + 1, allFiles)
    ELSE CHOOSE out \in {CoLocated(next, changed, i + 1, allFiles) :
                            next \in {CoLocatedOf(st, changed[i], allFiles, 1)}} : TRUE

\* results left in their order of insertion
Unsorted(results, n) == results

\* line 324: results.sort((a, b) => b.reasons.length - a.reasons.length):
\* most reasons first, equal counts in their order of insertion
RECURSIVE SortByReasons(_, _)
SortByReasons(results, n) ==
    IF n < 0 THEN <<>>
    ELSE SelectSeq(results, LAMBDA r : Len(r.reasons) = n) \o SortByReasons(results, n - 1)

\* the most reasons a result carries
MaxReasons(results) ==
    IF results = <<>> THEN 0
    ELSE CHOOSE n \in {Len(results[i].reasons) : i \in DOMAIN results} :
             \A i \in DOMAIN results : Len(results[i].reasons) <= n

\* lines 227-315: the Map impactedTests after the five steps
ImpactedTests(changed, graph, allFiles) ==
    LET s1 == DirectChanges(NoImpacts, changed)
        s2 == NamingMatches(s1, changed, 1, allFiles)
        s3 == ImportTraversal(s2, changed, graph)
    IN CoLocated(s3, changed, 1, allFiles)

\* lines 318-326: the Map as a sorted array
Results(st) ==
    LET results == [i \in DOMAIN st.order |->
                       [path |-> st.order[i], reasons |-> st.map[st.order[i]]]]
    IN SortByReasons(results, MaxReasons(results))

\* the position of a path in UtFileList
PositionOf(f) == CHOOSE k \in DOMAIN UtFileList : UtFileList[k] = f

\* the lists of at most n paths, a path possibly more than once, in the
\* order of UtFileList
RECURSIVE PathLists(_)
PathLists(n) ==
    IF n = 0 THEN {<<>>}
    ELSE PathLists(n - 1) \cup
         {Append(q[1], UtFileList[q[2]]) :
             q \in {r \in PathLists(n - 1) \X DOMAIN UtFileList :
                       /\ Len(r[1]) = n - 1
                       /\ n > 1 => PositionOf(r[1][n - 1]) <= r[2]}}

\* config.ts lines 23-43 and 118: the values of context.config.maxDepth tried
\* (the default is 10)
ConfigDepths == {1, 2, 10}

\* unitTestAnalyzer.analyze(context): context.config is part of the context
\* and no line of analyze reads it
AnalyzeUnitTests(changed, g, present, config) ==
    /\ ~utRun.called
    /\ adds = 0
    /\ \E st \in {ImpactedTests(changed, UtGraphs[g],
                                  SelectSeq(UtFileList, LAMBDA f : f \in present))} :
          utRun' = [called |-> TRUE, changed |-> changed, graph |-> g, config |-> config,
                    inserted |-> st.order, results |-> Results(st)]
    /\ UNCHANGED <<impactedTests, sharedImpacts, lastAdd, adds>>
    /\ UNCHANGED <<gafVars, cacheVars, buildVars, notImpact>>

InitImpact == LaterIdle /\ GafIdle /\ CacheIdle /\ BuildIdle

NextImpact ==
    \/ \E f \in ImpactFiles, reason \in ImpactReasons : CallAddImpact(f, reason)
    \/ \E f \in ImpactFiles, reason \in ImpactReasons : CallAddImpactShared(f, reason)
    \/ \E changed \in PathLists(MaxUtChanged), g \in DOMAIN UtGraphs, present \in UtProjects,
          k \in ConfigDepths :
          AnalyzeUnitTests(changed, g, present, [maxDepth |-> k])

SpecImpact == InitImpact /\ [][NextImpact]_vars

\* ---- properties of unitTestAnalyzer.analyze ----

\* C19: the list analyze returns is in order of non-increasing reason count
\* and holds each impacted path once
C19_SortedByReasons ==
    utRun.called =>
        \A i, j \in DOMAIN utRun.results :
            i < j => /\ Len(utRun.results[i].reasons) >= Len(utRun.results[j].reasons)
                     /\ utRun.results[i].path /= utRun.results[j].path

\* a returned list of three results or more, the first of which has the
\* most reasons and was not the first one put into the Map
C19_Witness ==
    /\ utRun.called
    /\ Len(utRun.results) >= 3
    /\ Len(utRun.results[1].reasons) > Len(utRun.results[Len(utRun.results)].reasons)
    /\ utRun.results[1].path /= utRun.inserted[1]
    /\ Len(utRun.results[1].reasons) > Len(utRun.results[2].reasons)

\* the files that import a file of the set directly
ImportersOf(graph, near) ==
    UNION {Range(graph.importedBy[f]) : f \in near \cap DOMAIN graph.importedBy}

\* the least number of importedBy steps from a file of the set near, itself
\* k steps from a changed file, to the file f; -1 if there is no such path
RECURSIVE Distance(_, _, _, _)
Distance(graph, near, f, k) ==
    IF f \in near THEN k
    ELSE IF ImportersOf(graph, near) \subseteq near THEN -1
    ELSE Distance(graph, near \cup ImportersOf(graph, near), f, k + 1)

\* the propagation depth of a file in the analysed graph
DepthOf(f) == Distance(UtGraphs[utRun.graph], Range(utRun.changed), f, 0)

\* the results of the last analysis that carry an imports_changed reason,
\* each with that reason
ImportsChanged ==
    UNION {{[path |-> utRun.results[i].path, reason |-> utRun.results[i].reasons[j]] :
               j \in {n \in DOMAIN utRun.results[i].reasons :
                         utRun.results[i].reasons[n].type = "imports_changed"}} :
           i \in DOMAIN utRun.results}

\* C21: with config.maxDepth = k, only a test file within k importedBy steps
\* of some changed file receives an imports_changed reason
C21_ConfiguredDepthBounds ==
    utRun.called =>
        \A e \in ImportsChanged :
            /\ DepthOf(e.path) >= 0
            /\ DepthOf(e.path) <= utRun.config.maxDepth

\* C26: an imports_changed reason is labelled by the propagation depth of
\* its file: the depth is at least 1, the text is the "directly imports" one
\* exactly at depth 1 and the "transitively imports" one, with the depth,
\* above it
C26_DepthLabels ==
    utRun.called =>
        \A e \in ImportsChanged :
            /\ DepthOf(e.path) >= 1
            /\ e.reason.description = "Directly imports changed file"
                   <=> DepthOf(e.path) = 1
            /\ DepthOf(e.path) > 1 =>
                   e.reason.description =
                       "Transitively imports changed file (depth: "
                           \o ToString(DepthOf(e.path)) \o ")"

\* ------------------------------------------------------------------------
\* getRouteSimilarity (src/heuristics/route-patterns.ts)
\* ------------------------------------------------------------------------

\* the route paths compared
Routes ==
    {"/", "", "/users", "users/", "/Users", "/posts", "/api/users", "/api/posts",
     "/users/:id", "/users/123", "/users//123", "/:org/:id", "/api/users/:id"}

\* line 154: path.replace(/\/+/g, "/"), from position i on
RECURSIVE CollapseSlashes(_, _)
CollapseSlashes(s, i) ==
    IF i > Len(s) THEN ""
    ELSE IF SubSeq(s, i, i) = "/" /\ i < Len(s) /\ SubSeq(s, i + 1, i + 1) = "/"
    THEN CollapseSlashes(s, i + 1)
    ELSE SubSeq(s, i, i) \o CollapseSlashes(s, i + 1)

\* lines 152-162: normalizePath
NormalizePath(path) ==
    LET collapsed == CollapseSlashes(path, 1)
        rooted == IF StartsWith(collapsed, "/") THEN collapsed ELSE "/" \o collapsed
    IN IF EndsWith(rooted, "/") /\ Len(rooted) > 1
       THEN SubSeq(rooted, 1, Len(rooted) - 1)
       ELSE rooted

\* line 215: normalizePath(route).toLowerCase().split("/").filter(Boolean)
RouteSegments(route) ==
    LET lower == ToLowerCase(NormalizePath(route))
    IN SelectSeq(SplitFrom(lower, 1, Slashes(lower, {"/"})), LAMBDA part : part /= "")

\* the segments of each route, worked out once for all calls
RouteParts == [r \in Routes |-> RouteSegments(r)]

Max2(a, b) == IF a >= b THEN a ELSE b

\* lines 229-233: what one position adds to matchingParts, in halves
Credit(p1, p2) ==
    IF p1 = p2 THEN 2
    ELSE IF StartsWith(p1, ":") \/ StartsWith(p2, ":") THEN 1
    ELSE 0

\* lines 225-234: matchingParts after the loop, in halves
RECURSIVE MatchingParts(_, _, _)
MatchingParts(parts1, parts2, i) ==
    IF i > Min2(Len(parts1), Len(parts2)) THEN 0
    ELSE Credit(parts1[i], parts2[i]) + MatchingParts(parts1, parts2, i + 1)

\* lines 214-237: getRouteSimilarity, the number returned as num / den
RouteSimilarity(parts1, parts2) ==
    IF Len(parts1) = 0 \/ Len(parts2) = 0 THEN [num |-> 0, den |-> 1]
    ELSE [num |-> MatchingParts(parts1, parts2, 1),
          den |-> 2 * Max2(Len(parts1), Len(parts2))]

\* getRouteSimilarity(route1, route2)
GetRouteSimilarity(route1, route2) ==
    /\ ~similarity.called
    /\ \E r \in {RouteSimilarity(RouteParts[route1], RouteParts[route2])} :
          similarity' = [called |-> TRUE, route1 |-> route1, route2 |-> route2,
                         num |-> r.num, den |-> r.den]
    /\ UNCHANGED <<gafVars, cacheVars, buildVars, notRoute>>

InitRoute == LaterIdle /\ GafIdle /\ CacheIdle /\ BuildIdle

NextRoute == \E route1, route2 \in Routes : GetRouteSimilarity(route1, route2)

SpecRoute == InitRoute /\ [][NextRoute]_vars

\* ---- properties of getRouteSimilarity ----

\* the positions both routes have
Shared(parts1, parts2) == {i \in DOMAIN parts1 : i \in DOMAIN parts2}

EqualPositions(parts1, parts2) == {i \in Shared(parts1, parts2) : parts1[i] = parts2[i]}

ParamPositions(parts1, parts2) ==
    {i \in Shared(parts1, parts2) :
        /\ parts1[i] /= parts2[i]
        /\ StartsWith(parts1[i], ":") \/ StartsWith(parts2[i], ":")}

\* C20: getRouteSimilarity(a, b) lies in [0, 1] and is (equal positions +
\* 0.5 x positions pairing a parameter with a different segment) / the
\* larger segment count; it is 1 for a path and itself, and 0 when no
\* position carries equal segments or a parameter
C20_Similarity ==
    similarity.called =>
        LET parts1 == RouteParts[similarity.route1]
            parts2 == RouteParts[similarity.route2]
            equal == Cardinality(EqualPositions(parts1, parts2))
            params == Cardinality(ParamPositions(parts1, parts2))
        IN /\ 0 <= similarity.num /\ similarity.num <= similarity.den
           /\ similarity.num * 2 * Max2(Len(parts1), Len(parts2))
                 = (2 * equal + params) * similarity.den
           /\ similarity.route1 = similarity.route2 => similarity.num = similarity.den
           /\ (equal = 0 /\ params = 0) => similarity.num = 0

\* ------------------------------------------------------------------------
\* getFolderRiskLevel (src/heuristics/folder-conventions.ts)
\* ------------------------------------------------------------------------

\* the directories a path tried is made of: a high-risk, a medium-risk and a
\* low-risk word, one of them capitalised, a word that only starts like a
\* high-risk one, and a word of no tier
FolderWords == {"auth", "Handlers", "utils", "authz", "src"}

\* the most directories in a path
MaxFolders == 3

\* the relative paths of n directories and a file
RECURSIVE FolderPathsOf(_)
FolderPathsOf(n) ==
    IF n = 0 THEN {"index.ts"}
    ELSE {w \o "/" \o p : w \in FolderWords, p \in FolderPathsOf(n - 1)}

FolderPaths == UNION {FolderPathsOf(n) : n \in 0..MaxFolders}

\* getFolderRiskLevel(filePath)
CallGetFolderRiskLevel(filePath) ==
    /\ ~folderCall.called
    /\ folderCall' = [called |-> TRUE, filePath |-> filePath,
                      level |-> GetFolderRiskLevel(filePath)]
    /\ UNCHANGED <<gafVars, cacheVars, buildVars, notFolder>>

InitFolder == LaterIdle /\ GafIdle /\ CacheIdle /\ BuildIdle

NextFolder == \E filePath \in FolderPaths : CallGetFolderRiskLevel(filePath)

SpecFolder == InitFolder /\ [][NextFolder]_vars

\* ---- properties of getFolderRiskLevel ----

\* the directory segments of a path, in lower case
DirectorySegments(filePath) ==
    LET pieces == SplitPath(ToLowerCase(filePath))
    IN {pieces[i] : i \in 1..(Len(pieces) - 1)}

\* C27: getFolderRiskLevel is high exactly when some directory segment of
\* the path is a high-risk word, else medium exactly when some segment is a
\* medium-risk word, else low exactly when some segment is a low-risk word,
\* else none, wherever the segment stands
C27_TierBySegments ==
    folderCall.called =>
        LET segments == DirectorySegments(folderCall.filePath)
        IN folderCall.level =
              IF segments \cap HIGH_RISK_FOLDERS /= {} THEN "high"
              ELSE IF segments \cap MEDIUM_RISK_FOLDERS /= {} THEN "medium"
              ELSE IF segments \cap LOW_RISK_FOLDERS /= {} THEN "low"
              ELSE "none"

\* ------------------------------------------------------------------------
\* detectMonorepo and its markers (src/core/monorepo.ts)
\* ------------------------------------------------------------------------

\* the directories under the root that hold a package.json with a name
DetectManifests ==
    << [name |-> "@app/ui", dir |-> "packages/ui", deps |-> <<>>],
       [name |-> "@app/web", dir |-> "apps/web", deps |-> <<"@app/ui">>],
       [name |-> "@app/core", dir |-> "libs/core", deps |-> <<"lodash">>] >>

\* the markers in the order detectMonorepo checks them
MarkerOrder == <<"npm", "pnpm", "lerna", "nx", "turbo">>

\* a marker file that is not there, and one that is, with the workspace
\* patterns detectMonorepo takes from it
Absent == [present |-> FALSE, patterns |-> <<>>]
Marker(patterns) == [present |-> TRUE, patterns |-> patterns]

\* what each marker may be: package.json "workspaces" (lines 35-42) and
\* pnpm-workspace.yaml (45-51) with the patterns written in them, lerna.json
\* with a packages array or with the default (54-64), nx.json with its fixed
\* patterns (67-74), turbo.json, which names no patterns (77-82)
MarkerChoices ==
    [npm |-> {Absent, Marker(<<"packages/*">>), Marker(<<"packages/*", "apps/*">>)},
     pnpm |-> {Absent, Marker(<<"apps/*">>), Marker(<<"libs/*">>)},
     lerna |-> {Absent, Marker(<<"packages/*">>), Marker(<<"libs/*", "apps/*">>)},
     nx |-> {Absent, Marker(<<"packages/*", "apps/*", "libs/*">>)},
     turbo |-> {Absent, Marker(<<>>)}]

\* the marker files a root may hold
MarkerSets ==
    {m \in [DOMAIN MarkerChoices -> UNION Range(MarkerChoices)] :
        \A k \in DOMAIN MarkerChoices : m[k] \in MarkerChoices[k]}

\* glob(pattern, {cwd: rootPath}) for a pattern "dir/*": the directories
\* right under dir
GlobMatches(dir, pattern) ==
    /\ EndsWith(pattern, "/*")
    /\ PathDirname(dir) = SubSeq(pattern, 1, Len(pattern) - 2)

\* lines 96-129: findWorkspaces(rootPath, patterns), pattern i onwards: the
\* manifests it reads, one pattern after the other
RECURSIVE MatchedManifests(_, _, _)
MatchedManifests(ms, patterns, i) ==
    IF i > Len(patterns) THEN <<>>
    ELSE SelectSeq(ms, LAMBDA m : GlobMatches(m.dir, patterns[i]))
            \o MatchedManifests(ms, patterns, i + 1)

\* a block that runs only if no earlier block has found a marker
BlockFirstWins(prev, marker, type, ms) ==
    IF marker.present /\ ~prev.isMonorepo
    THEN [isMonorepo |-> TRUE, type |-> type,
          matched |-> MatchedManifests(ms, marker.patterns, 1)]
    ELSE prev

\* lines 35-42, 45-51, 54-64, 67-74: one of the first four blocks; matched
\* stands for result.workspaces, as the manifests findWorkspaces read
Block(prev, marker, type, ms) ==
    IF marker.present
    THEN [isMonorepo |-> TRUE, type |-> type,
          matched |-> MatchedManifests(ms, marker.patterns, 1)]
    ELSE prev

\* lines 77-82: the turbo block sets the type and leaves result.workspaces
TurboBlock(prev, marker) ==
    IF marker.present THEN [prev EXCEPT !.isMonorepo = TRUE, !.type = "turbo"] ELSE prev

\* lines 14-91: detectMonorepo(rootPath)
DetectMonorepoResult(ms, rootOk, markers) ==
    LET r0 == [isMonorepo |-> FALSE, type |-> "unknown", matched |-> <<>>]
        r1 == Block(r0, markers.npm, "npm", ms)
        r2 == Block(r1, markers.pnpm, "pnpm", ms)
        r3 == Block(r2, markers.lerna, "lerna", ms)
        r4 == Block(r3, markers.nx, "nx", ms)
        r5 == TurboBlock(r4, markers.turbo)
        found == FindWorkspaces(r5.matched)
        map == BuildPackageMap(found, 1, EmptyMap)
    IN IF ~rootOk
       THEN [isMonorepo |-> FALSE, type |-> "unknown", workspaces |-> <<>>,
             packageMap |-> EmptyMap]
       ELSE IF ~r5.isMonorepo
       THEN [isMonorepo |-> FALSE, type |-> "unknown", workspaces |-> <<>>,
             packageMap |-> EmptyMap]
       ELSE [isMonorepo |-> TRUE, type |-> r5.type,
             workspaces |-> ResolveInternalDependencies(r5.matched, found, map, 1, 1),
             packageMap |-> map]

\* detectMonorepo(rootPath) on a root with these marker files; rootOk: the
\* root package.json exists and parses (lines 24-32), without it there is no
\* "workspaces" field
CallDetectMonorepo(rootOk, markers) ==
    /\ ~detection.called
    /\ ~rootOk => ~markers.npm.present
    /\ detection' = [called |-> TRUE, rootOk |-> rootOk, markers |-> markers,
                     result |-> DetectMonorepoResult(DetectManifests, rootOk, markers)]
    /\ UNCHANGED <<gafVars, cacheVars, buildVars, notDetect>>

InitDetect == LaterIdle /\ GafIdle /\ CacheIdle /\ BuildIdle

NextDetect ==
    \E rootOk \in BOOLEAN, markers \in MarkerSets : CallDetectMonorepo(rootOk, markers)

SpecDetect == InitDetect /\ [][NextDetect]_vars

\* ---- properties of detectMonorepo ----

\* the positions in MarkerOrder of the markers present in the last call
PresentMarkers == {k \in DOMAIN MarkerOrder : detection.markers[MarkerOrder[k]].present}

\* the last marker present, among the first n of MarkerOrder
LastMarker(n) ==
    MarkerOrder[CHOOSE k \in PresentMarkers :
                    k <= n /\ \A j \in PresentMarkers : j <= n => j <= k]

\* the directories a marker's patterns name, pattern by pattern
DirsOf(marker) ==
    LET ms == MatchedManifests(DetectManifests, detection.markers[marker].patterns, 1)
    IN [i \in DOMAIN ms |-> ms[i].dir]

\* the directories of the workspaces returned
ReturnedDirs ==
    [i \in DOMAIN detection.result.workspaces |->
        detection.result.workspaces[i].relativePath]

\* C23 as stated: with a root manifest and some marker present, the type and
\* the workspaces returned are both those of the last marker present, in the
\* order npm, pnpm, lerna, nx, turbo
C23_LastMarkerWins ==
    (detection.called /\ detection.rootOk /\ PresentMarkers /= {}) =>
        /\ detection.result.isMonorepo
        /\ detection.result.type = LastMarker(5)
        /\ ReturnedDirs = DirsOf(LastMarker(5))

\* C23 amended: the type is that of the last marker present; the workspaces
\* are those of the last marker present among npm, pnpm, lerna and nx, and
\* none if turbo.json is the only marker
C23_LastMarkerWinsButTurbo ==
    (detection.called /\ detection.rootOk /\ PresentMarkers /= {}) =>
        /\ detection.result.isMonorepo
        /\ detection.result.type = LastMarker(5)
        /\ ReturnedDirs = IF PresentMarkers = {5} THEN <<>> ELSE DirsOf(LastMarker(4))

\* three markers or more present, package.json workspaces and turbo.json
\* among them: the type is turbo and the workspaces are those of the marker
\* before it, which differ from those of package.json
C23_Witness ==
    /\ detection.called
    /\ detection.rootOk
    /\ Cardinality(PresentMarkers) >= 3
    /\ {1, 5} \subseteq PresentMarkers
    /\ detection.result.type = "turbo"
    /\ ReturnedDirs = DirsOf(LastMarker(4))
    /\ ReturnedDirs /= <<>>
    /\ ReturnedDirs /= DirsOf("npm")

\* ------------------------------------------------------------------------
\* save() against a concurrent load() (src/core/cache.ts)
\* ------------------------------------------------------------------------

\* the entries an earlier run may have left in the cache file
RaceEntries == {m \in EntryMaps : Cardinality(DOMAIN m) = 1}

\* an earlier run ended with a save() nothing interfered with
EarlierRun(entries) ==
    /\ raceFile = AbsentDoc
    /\ saver.pc = "idle"
    /\ observer.pc = "idle"
    /\ raceFile' = Stringify([version |-> VERSION, hasEntries |-> TRUE, entries |-> entries])
    /\ UNCHANGED <<saver, observer>>
    /\ UNCHANGED <<gafVars, cacheVars, buildVars, notRace>>

\* cache.ts lines 73-81: save() of a manager that loaded the file and was
\* given one entry by set(): writeFileSync opens the cache file for writing,
\* which creates it or cuts it to length zero
SaveOpen(f, h, imports) ==
    /\ saver.pc = "idle"
    /\ \E r \in {CacheSet(Load(raceFile, TRUE), FALSE, f, h, imports)} :
          /\ r.isDirty
          /\ Stringify(r.data) /= raceFile
          /\ saver' = [pc |-> "opened", data |-> r.data, previous |-> raceFile]
    /\ raceFile' = CorruptDoc
    /\ UNCHANGED observer
    /\ UNCHANGED <<gafVars, cacheVars, buildVars, notRace>>

\* line 81: writeFileSync has written the first part of the text
SaveWrite ==
    /\ saver.pc = "opened"
    /\ saver' = [saver EXCEPT !.pc = "writing"]
    /\ raceFile' = CorruptDoc
    /\ UNCHANGED observer
    /\ UNCHANGED <<gafVars, cacheVars, buildVars, notRace>>

\* lines 81-82: writeFileSync has written the rest and returns
SaveClose ==
    /\ saver.pc = "writing"
    /\ saver' = [saver EXCEPT !.pc = "saved"]
    /\ raceFile' = Stringify(saver.data)
    /\ UNCHANGED observer
    /\ UNCHANGED <<gafVars, cacheVars, buildVars, notRace>>

\* lines 40-44, 49-68: a second process constructs a CacheManager on the
\* same directory; load() reads the file as it is at that moment
Observe ==
    /\ observer.pc = "idle"
    /\ observer' = [pc |-> "loaded", seen |-> raceFile, data |-> Load(raceFile, TRUE)]
    /\ UNCHANGED <<raceFile, saver>>
    /\ UNCHANGED <<gafVars, cacheVars, buildVars, notRace>>

InitRace == LaterIdle /\ GafIdle /\ CacheIdle /\ BuildIdle

NextRace ==
    \/ \E entries \in RaceEntries : EarlierRun(entries)
    \/ \E f \in CacheFiles, h \in Hashes, imports \in ImportLists : SaveOpen(f, h, imports)
    \/ SaveWrite
    \/ SaveClose
    \/ Observe

SpecRace == InitRace /\ [][NextRace]_vars

\* ---- properties of save() ----

\* C28: a process that loads the cache file while another one saves it reads
\* the whole document the file held before the save or the whole document
\* the save writes, never a part of one
C28_AtomicOverwrite ==
    (observer.pc = "loaded" /\ saver.pc /= "idle") =>
        observer.seen \in {saver.previous, Stringify(saver.data)}

====
